---- MODULE Spec2Model ----
(***************************************************************************)
(* A model of the smart-playlists scripts (smart_playlists.py and          *)
(* new_releases.py): the de-duplication and sort of recent tracks, the     *)
(* library build, the playlist materializer, the Last.fm retry wrapper and *)
(* the paginated fetchers.  Each part has its own variables and its own    *)
(* specification; a specification leaves the other parts' variables alone. *)
(***************************************************************************)
EXTENDS Integers, Sequences, FiniteSets, TLC

VARIABLES
    \* _process_and_sort_tracks
    m_tracks, m_i, m_unique, m_result, m_pc,
    \* get_all_spotify_library_tracks
    lb_liked, lb_pl, lb_likedFails, lb_plFail,
    lb_all, lb_pc, lb_tracks, lb_idx, lb_status, lb_log,
    \* the account's playlists and the materializer
    ac_init, ac_playlists, ac_nextId,
    pl_op, pl_name, pl_uris, pl_pc, pl_target, pl_i, pl_calls, pl_run,
    \* the Last.fm calls: retry_on_rate_limit and the two callers of the service
    rt_kind, rt_max, rt_delay, rt_retries, rt_calls, rt_history, rt_waits,
    rt_pc, rt_result,
    bk_stream, bk_failAt, bk_err, bk_pos, bk_table,
    \* the paginated fetchers of the two scripts
    ft_kind, ft_size, ft_hole, ft_holeKind, ft_failAt,
    ft_offset, ft_requests, ft_tracks, ft_ids, ft_pc, ft_log,
    \* fetching and normalizing the raw items of one source
    nz_source, nz_path, nz_raw, nz_fetched, nz_i, nz_records, nz_pc, nz_log,
    \* match_spotify_with_lastfm
    mt_library, mt_table, mt_idx, mt_matched, mt_missing, mt_pc,
    \* get_recent_tracks_from_playlists
    rc_playlists, rc_liked, rc_cutoff, rc_recent, rc_pc,
    \* update_playcount_playlists
    pk_matched, pk_played, pk_top, pk_left, pk_bottomTracks, pk_bottom, pk_calls, pk_pc,
    \* the two selections run on the sources taken in a given order
    od_sel, od_playlists, od_liked, od_counts, od_order, od_result, od_pc,
    \* main of new_releases.py
    nr_albums, nr_releases, nr_liked, nr_source, nr_dest, nr_known, nr_failed, nr_artist, nr_album, nr_processed, nr_expanded, nr_toAdd, nr_appended, nr_run, nr_past, nr_pc

mergeVars == <<m_tracks, m_i, m_unique, m_result, m_pc>>

libInput == <<lb_liked, lb_pl, lb_likedFails, lb_plFail>>

libVars == <<lb_liked, lb_pl, lb_likedFails, lb_plFail,
             lb_all, lb_pc, lb_tracks, lb_idx, lb_status, lb_log>>

plInput == <<ac_init, pl_op, pl_name>>

plVars == <<ac_init, ac_playlists, ac_nextId,
            pl_op, pl_name, pl_uris, pl_pc, pl_target, pl_i, pl_calls, pl_run>>

rtInput == <<rt_kind, rt_max, rt_delay, bk_stream, bk_failAt, bk_err>>

rtVars == <<rt_kind, rt_max, rt_delay, rt_retries, rt_calls, rt_history, rt_waits,
            rt_pc, rt_result, bk_stream, bk_failAt, bk_err, bk_pos, bk_table>>

ftInput == <<ft_kind, ft_size, ft_hole, ft_holeKind, ft_failAt>>

ftVars == <<ft_kind, ft_size, ft_hole, ft_holeKind, ft_failAt,
            ft_offset, ft_requests, ft_tracks, ft_ids, ft_pc, ft_log>>

nzInput == <<nz_source, nz_path, nz_raw>>

nzVars == <<nz_source, nz_path, nz_raw, nz_fetched, nz_i, nz_records, nz_pc, nz_log>>

mtVars == <<mt_library, mt_table, mt_idx, mt_matched, mt_missing, mt_pc>>

rcVars == <<rc_playlists, rc_liked, rc_cutoff, rc_recent, rc_pc>>

pkVars == <<pk_matched, pk_played, pk_top, pk_left, pk_bottomTracks, pk_bottom, pk_calls, pk_pc>>

odVars == <<od_sel, od_playlists, od_liked, od_counts, od_order, od_result, od_pc>>

nrVars == <<nr_albums, nr_releases, nr_liked, nr_source, nr_dest, nr_known, nr_failed, nr_artist, nr_album, nr_processed, nr_expanded, nr_toAdd, nr_appended, nr_run, nr_past, nr_pc>>

vars == <<mergeVars, libVars, plVars, rtVars, ftVars, nzVars, mtVars, rcVars, pkVars, odVars, nrVars>>

\* What each part leaves alone.
notMergeVars == <<libVars, plVars, rtVars, ftVars, nzVars, mtVars, rcVars, pkVars, odVars, nrVars>>

notLibVars == <<mergeVars, plVars, rtVars, ftVars, nzVars, mtVars, rcVars, pkVars, odVars, nrVars>>

notPlVars == <<mergeVars, libVars, rtVars, ftVars, nzVars, mtVars, rcVars, pkVars, odVars, nrVars>>

notRtVars == <<mergeVars, libVars, plVars, ftVars, nzVars, mtVars, rcVars, pkVars, odVars, nrVars>>

notFtVars == <<mergeVars, libVars, plVars, rtVars, nzVars, mtVars, rcVars, pkVars, odVars, nrVars>>

notNzVars == <<mergeVars, libVars, plVars, rtVars, ftVars, mtVars, rcVars, pkVars, odVars, nrVars>>

notMtVars == <<mergeVars, libVars, plVars, rtVars, ftVars, nzVars, rcVars, pkVars, odVars, nrVars>>

notRcVars == <<mergeVars, libVars, plVars, rtVars, ftVars, nzVars, mtVars, pkVars, odVars, nrVars>>

\* What the recent-tracks run, which goes through Part 1, leaves alone.
notMergeRcVars == <<libVars, plVars, rtVars, ftVars, nzVars, mtVars, pkVars, odVars, nrVars>>

notPkVars == <<mergeVars, libVars, plVars, rtVars, ftVars, nzVars, mtVars, rcVars, odVars, nrVars>>

notOdVars == <<mergeVars, libVars, plVars, rtVars, ftVars, nzVars, mtVars, rcVars, pkVars, nrVars>>

notNrVars == <<mergeVars, libVars, plVars, rtVars, ftVars, nzVars, mtVars, rcVars, pkVars, odVars>>

(***************************************************************************)
(* General helpers.                                                        *)
(***************************************************************************)
SeqsUpTo(S, n) == UNION {[1..k -> S] : k \in 0..n}

SetMax(S) == CHOOSE x \in S : \A y \in S : y <= x

SetMin(S) == CHOOSE x \in S : \A y \in S : x <= y

(***************************************************************************)
(* Part 1.  _process_and_sort_tracks (smart_playlists.py 183-193).         *)
(* A track record is [uri, added_at]; dates are integers (a larger number  *)
(* is a later date).                                                       *)
(***************************************************************************)
NumUris == 2
MaxDate == 3
MaxTracks == 3

Uris == 1..NumUris
Dates == 1..MaxDate
TrackRecs == [uri : Uris, added_at : Dates]

MergeIdle ==
    /\ m_tracks = <<>>
    /\ m_i = 1
    /\ m_unique = <<>>
    /\ m_result = <<>>
    /\ m_pc = "idle"

\* The dict unique_tracks, kept as the sequence of its values in insertion
\* order (a Python dict keeps the position of a key whose value is replaced).
HasUri(unique, u) == \E k \in 1..Len(unique) : unique[k].uri = u

EntryOf(unique, u) == unique[CHOOSE k \in 1..Len(unique) : unique[k].uri = u]

PutEntry(unique, track) ==
    IF HasUri(unique, track.uri)
    THEN [k \in 1..Len(unique) |->
            IF unique[k].uri = track.uri THEN track ELSE unique[k]]
    ELSE Append(unique, track)

\* A plausible slip of line 187: the comparison turned around.
ReplacesKeptFlipped(track, kept) == track.added_at < kept.added_at

\* Line 187: track['added_at'] > unique_tracks[uri]['added_at']
ReplacesKept(track, kept) == track.added_at > kept.added_at

\* sorted(..., key=added_at, reverse=True): a stable sort, so records of equal
\* date keep their order in the input.
InsertDesc(sorted, x) ==
    LET k == Cardinality({j \in 1..Len(sorted) : sorted[j].added_at >= x.added_at})
    IN  SubSeq(sorted, 1, k) \o <<x>> \o SubSeq(sorted, k + 1, Len(sorted))

RECURSIVE SortedDesc(_)
SortedDesc(s) ==
    IF s = <<>> THEN <<>>
    ELSE InsertDesc(SortedDesc(SubSeq(s, 1, Len(s) - 1)), s[Len(s)])

MergeStart ==
    /\ m_tracks \in SeqsUpTo(TrackRecs, MaxTracks)
    /\ m_i = 1
    /\ m_unique = <<>>
    /\ m_result = <<>>
    /\ m_pc = "loop"

\* One turn of the loop of lines 185-188.
ProcessTrack ==
    /\ m_pc = "loop"
    /\ m_i <= Len(m_tracks)
    /\ LET track == m_tracks[m_i]
       IN  m_unique' =
             IF \/ ~HasUri(m_unique, track.uri)
                \/ ReplacesKept(track, EntryOf(m_unique, track.uri))
             THEN PutEntry(m_unique, track)
             ELSE m_unique
    /\ m_i' = m_i + 1
    /\ UNCHANGED <<m_tracks, m_result, m_pc>>
    /\ UNCHANGED notMergeVars

\* Lines 189-193: the uris of the kept records, latest first.
SortTracks ==
    /\ m_pc = "loop"
    /\ m_i > Len(m_tracks)
    /\ m_result' = [k \in 1..Len(m_unique) |-> SortedDesc(m_unique)[k].uri]
    /\ m_pc' = "done"
    /\ UNCHANGED <<m_tracks, m_i, m_unique>>
    /\ UNCHANGED notMergeVars

MergeNext == ProcessTrack \/ SortTracks

(***************************************************************************)
(* Part 2.  get_all_spotify_library_tracks (smart_playlists.py 229-266).   *)
(* The build is one thread of control: the liked songs first, then every   *)
(* playlist id in order.  Each source is written as a task with its own    *)
(* position, and MayRun states the program order among the tasks.          *)
(* A raw item is [uri, name]; the track dict made from it is the same      *)
(* record (artist and key are functions of the raw track and change        *)
(* nothing here).                                                          *)
(***************************************************************************)
LibMaxItems == 1

LibUris == {"t1", "t2"}
LibNames == {"N1", "N2"}
LibItems == [uri : LibUris, name : LibNames]

\* SOURCE_PLAYLIST_IDS, and the order in which the build visits its sources.
PlaylistIds == <<"p1", "p2">>
PlaylistSet == {PlaylistIds[k] : k \in 1..Len(PlaylistIds)}
SourceOrder == <<"liked">> \o PlaylistIds
Sources == {SourceOrder[k] : k \in 1..Len(SourceOrder)}
OrderOf(s) == CHOOSE k \in 1..Len(SourceOrder) : SourceOrder[k] = s

\* How the fetch of one playlist goes: "none" (no error), "meta" (sp.playlist
\* raises, line 245), "page" (the first sp.playlist_tracks request raises
\* inside get_all_playlist_tracks, lines 103 and 109-111).
PlFailures == {"none", "meta", "page"}

LibIdle ==
    /\ lb_liked = <<>>
    /\ lb_pl = [p \in PlaylistSet |-> <<>>]
    /\ lb_likedFails = FALSE
    /\ lb_plFail = [p \in PlaylistSet |-> "none"]
    /\ lb_all = <<>>
    /\ lb_pc = [s \in Sources |-> "idle"]
    /\ lb_tracks = [s \in Sources |-> <<>>]
    /\ lb_idx = [s \in Sources |-> 1]
    /\ lb_status = "idle"
    /\ lb_log = <<>>

LibStart ==
    /\ lb_liked \in SeqsUpTo(LibItems, LibMaxItems)
    /\ lb_pl \in [PlaylistSet -> SeqsUpTo(LibItems, LibMaxItems)]
    /\ lb_likedFails \in BOOLEAN
    /\ lb_plFail \in [PlaylistSet -> PlFailures]
    /\ lb_all = <<>>
    /\ lb_pc = [s \in Sources |-> "wait"]
    /\ lb_tracks = [s \in Sources |-> <<>>]
    /\ lb_idx = [s \in Sources |-> 1]
    /\ lb_status = "building"
    /\ lb_log = <<>>

Finished(s) == lb_pc[s] \in {"done", "failed"}

\* A slip that would run the sources as unordered tasks on the shared dict.
MayRunUnordered(s) == lb_status = "building"

\* Program order (lines 262-263 and the for loop of line 243): a source runs
\* only when every source before it is finished, and nothing runs after an
\* exception has left the build.
MayRun(s) ==
    /\ lb_status = "building"
    /\ \A t \in Sources : OrderOf(t) < OrderOf(s) => Finished(t)

\* The code takes no lock anywhere in lines 229-266.
LockHeld == FALSE

\* Line 232: liked = get_liked_songs().  get_liked_songs (114-127) has no
\* handler, and neither have its callers: an error of a page request leaves
\* the build as an exception.
FetchLiked ==
    /\ lb_pc["liked"] = "wait"
    /\ MayRun("liked")
    /\ IF lb_likedFails
       THEN /\ lb_pc' = [lb_pc EXCEPT !["liked"] = "failed"]
            /\ lb_status' = "raised"
            /\ UNCHANGED lb_tracks
       ELSE /\ lb_pc' = [lb_pc EXCEPT !["liked"] = "loop"]
            /\ lb_tracks' = [lb_tracks EXCEPT !["liked"] = lb_liked]
            /\ UNCHANGED lb_status
    /\ UNCHANGED <<libInput, lb_all, lb_idx, lb_log>>
    /\ UNCHANGED notLibVars

\* Lines 234-237: a liked song is written whether or not its uri is there.
MergeLikedItem ==
    /\ lb_pc["liked"] = "loop"
    /\ MayRun("liked")
    /\ lb_idx["liked"] <= Len(lb_tracks["liked"])
    /\ lb_all' = PutEntry(lb_all, lb_tracks["liked"][lb_idx["liked"]])
    /\ lb_idx' = [lb_idx EXCEPT !["liked"] = @ + 1]
    /\ UNCHANGED <<libInput, lb_pc, lb_tracks, lb_status, lb_log>>
    /\ UNCHANGED notLibVars

\* Lines 245-247, with the handler of 254-255 and, inside
\* get_all_playlist_tracks, that of 109-111.
FetchPlaylist(p) ==
    /\ lb_pc[p] = "wait"
    /\ MayRun(p)
    /\ CASE lb_plFail[p] = "meta" ->
              /\ lb_pc' = [lb_pc EXCEPT ![p] = "failed"]
              /\ lb_log' = Append(lb_log, p)
              /\ UNCHANGED lb_tracks
         [] lb_plFail[p] = "page" ->
              /\ lb_pc' = [lb_pc EXCEPT ![p] = "loop"]
              /\ lb_log' = Append(lb_log, p)
              /\ lb_tracks' = [lb_tracks EXCEPT ![p] = <<>>]
         [] OTHER ->
              /\ lb_pc' = [lb_pc EXCEPT ![p] = "loop"]
              /\ lb_tracks' = [lb_tracks EXCEPT ![p] = lb_pl[p]]
              /\ UNCHANGED lb_log
    /\ UNCHANGED <<libInput, lb_all, lb_idx, lb_status>>
    /\ UNCHANGED notLibVars

\* Lines 250-252: the check of the check-then-set.
CheckPlaylistItem(p) ==
    /\ lb_pc[p] = "loop"
    /\ MayRun(p)
    /\ lb_idx[p] <= Len(lb_tracks[p])
    /\ IF HasUri(lb_all, lb_tracks[p][lb_idx[p]].uri)
       THEN /\ lb_idx' = [lb_idx EXCEPT ![p] = @ + 1]
            /\ UNCHANGED lb_pc
       ELSE /\ lb_pc' = [lb_pc EXCEPT ![p] = "set"]
            /\ UNCHANGED lb_idx
    /\ UNCHANGED <<libInput, lb_all, lb_tracks, lb_status, lb_log>>
    /\ UNCHANGED notLibVars

\* Line 253: the set of the check-then-set.
SetPlaylistItem(p) ==
    /\ lb_pc[p] = "set"
    /\ MayRun(p)
    /\ lb_all' = PutEntry(lb_all, lb_tracks[p][lb_idx[p]])
    /\ lb_idx' = [lb_idx EXCEPT ![p] = @ + 1]
    /\ lb_pc' = [lb_pc EXCEPT ![p] = "loop"]
    /\ UNCHANGED <<libInput, lb_tracks, lb_status, lb_log>>
    /\ UNCHANGED notLibVars

\* The end of a source's loop.
EndSource(s) ==
    /\ lb_pc[s] = "loop"
    /\ MayRun(s)
    /\ lb_idx[s] > Len(lb_tracks[s])
    /\ lb_pc' = [lb_pc EXCEPT ![s] = "done"]
    /\ UNCHANGED <<libInput, lb_all, lb_tracks, lb_idx, lb_status, lb_log>>
    /\ UNCHANGED notLibVars

\* Lines 265-266: return all_tracks.
ReturnLibrary ==
    /\ lb_status = "building"
    /\ \A s \in Sources : Finished(s)
    /\ lb_status' = "done"
    /\ UNCHANGED <<libInput, lb_all, lb_pc, lb_tracks, lb_idx, lb_log>>
    /\ UNCHANGED notLibVars

LibNext ==
    \/ FetchLiked
    \/ MergeLikedItem
    \/ \E p \in PlaylistSet : FetchPlaylist(p)
    \/ \E p \in PlaylistSet : CheckPlaylistItem(p)
    \/ \E p \in PlaylistSet : SetPlaylistItem(p)
    \/ \E s \in Sources : EndSource(s)
    \/ ReturnLibrary

(***************************************************************************)
(* Part 3.  The playlist materializer: create_or_update_playlist           *)
(* (smart_playlists.py 351-369), update_recent_tracks_playlist (197-212)   *)
(* and, in new_releases.py, create_or_get_playlist (159-178) with the      *)
(* batch loop of main (246-253).                                           *)
(* The account is the list of its playlists, each [name, id, items].       *)
(* sp.current_user_playlists returns one page of that list: its first      *)
(* PlaylistsPageLimit entries (limit=50 is written out in new_releases.py  *)
(* line 162 and is the client's default at smart_playlists.py 197 and      *)
(* 353); none of the three callers asks for a further page.                *)
(***************************************************************************)
PlaylistsPageLimit == 50
BatchSize == 100
MaxUris == 201
MaxRuns == 2

Min(a, b) == IF a <= b THEN a ELSE b

TargetName == "T"
MaterializeOps == {"update", "recent", "news"}

\* n playlists of other names, with ids 1..n.
Fillers(n) == [k \in 1..n |-> [name |-> "other", id |-> k, items |-> <<>>]]

\* The accounts a run may find: some playlists of other names, then none, one
\* or two playlists of the target name, with some earlier contents.
FillerCounts == {0, PlaylistsPageLimit - 1, PlaylistsPageLimit}
PrevContents == {<<>>, <<901>>, <<1, 902>>}

Accounts ==
    {Fillers(n) : n \in FillerCounts}
    \cup {Fillers(n) \o <<[name |-> TargetName, id |-> 100, items |-> c]>> :
            n \in FillerCounts, c \in PrevContents}
    \cup {Fillers(n) \o <<[name |-> TargetName, id |-> 100, items |-> c],
                          [name |-> TargetName, id |-> 101, items |-> <<903>>]>> :
            n \in FillerCounts, c \in PrevContents}

PlIdle ==
    /\ ac_init = <<>>
    /\ ac_playlists = <<>>
    /\ ac_nextId = 200
    /\ pl_op = "none"
    /\ pl_name = TargetName
    /\ pl_uris = <<>>
    /\ pl_pc = "idle"
    /\ pl_target = 0
    /\ pl_i = 0
    /\ pl_calls = <<>>
    /\ pl_run = 0

PlStart ==
    /\ ac_init \in Accounts
    /\ ac_playlists = ac_init
    /\ ac_nextId = 200
    /\ pl_op \in MaterializeOps
    /\ pl_name = TargetName
    /\ \E n \in 0..MaxUris : pl_uris = [k \in 1..n |-> k]
    /\ pl_pc = "resolve"
    /\ pl_target = 0
    /\ pl_i = 0
    /\ pl_calls = <<>>
    /\ pl_run = 1

\* sp.current_user_playlists()['items']: the first page only.
VisiblePlaylists(account) ==
    SubSeq(account, 1, Min(Len(account), PlaylistsPageLimit))

Matches(account, name) ==
    {k \in 1..Len(account) : account[k].name = name}

\* next((p for p in playlists if p['name'] == name), None): 0 stands for None.
FirstMatch(account, name) ==
    IF Matches(VisiblePlaylists(account), name) = {} THEN 0
    ELSE SetMin(Matches(VisiblePlaylists(account), name))

\* sp.playlist_replace_items(id, items)
ReplaceItems(account, id, items) ==
    [k \in 1..Len(account) |->
        IF account[k].id = id THEN [account[k] EXCEPT !.items = items]
        ELSE account[k]]

\* sp.playlist_add_items(id, batch)
AddItems(account, id, batch) ==
    [k \in 1..Len(account) |->
        IF account[k].id = id THEN [account[k] EXCEPT !.items = @ \o batch]
        ELSE account[k]]

\* sp.user_playlist_create: where the service lists the new playlist is its
\* own affair: first or last.
CreatePlaylist(account, name, id, atHead) ==
    IF atHead
    THEN <<[name |-> name, id |-> id, items |-> <<>>]>> \o account
    ELSE Append(account, [name |-> name, id |-> id, items |-> <<>>])

\* A slip of the slice of line 365: one item too many.
BatchAtOverlong(uris, i) == SubSeq(uris, i + 1, Min(i + BatchSize + 1, Len(uris)))

\* track_uris[i:i + batch_size] (lines 207, 365; new_releases.py 251).
BatchAt(uris, i) == SubSeq(uris, i + 1, Min(i + BatchSize, Len(uris)))

\* Lines 353-360 (and 197-203): look the name up, clear the playlist found or
\* create one.
ResolveAndClear ==
    /\ pl_pc = "resolve"
    /\ pl_op \in {"update", "recent"}
    /\ LET k == FirstMatch(ac_playlists, pl_name)
       IN  IF k # 0
           THEN /\ pl_target' = ac_playlists[k].id
                /\ ac_playlists' = ReplaceItems(ac_playlists, ac_playlists[k].id, <<>>)
                /\ pl_calls' = Append(pl_calls, [call |-> "replace", batch |-> <<>>])
                /\ UNCHANGED ac_nextId
           ELSE /\ pl_target' = ac_nextId
                /\ \E atHead \in BOOLEAN :
                     ac_playlists' = CreatePlaylist(ac_playlists, pl_name, ac_nextId, atHead)
                /\ pl_calls' = Append(pl_calls, [call |-> "create", batch |-> <<>>])
                /\ ac_nextId' = ac_nextId + 1
    /\ pl_pc' = "append"
    /\ UNCHANGED <<plInput, pl_uris, pl_i, pl_run>>
    /\ UNCHANGED notPlVars

\* new_releases.py 161-178: look the name up, create a playlist when none is
\* found; the playlist found is not cleared.
ResolveOrCreate ==
    /\ pl_pc = "resolve"
    /\ pl_op = "news"
    /\ LET k == FirstMatch(ac_playlists, pl_name)
       IN  IF k # 0
           THEN /\ pl_target' = ac_playlists[k].id
                /\ UNCHANGED <<ac_playlists, ac_nextId, pl_calls>>
           ELSE /\ pl_target' = ac_nextId
                /\ \E atHead \in BOOLEAN :
                     ac_playlists' = CreatePlaylist(ac_playlists, pl_name, ac_nextId, atHead)
                /\ pl_calls' = Append(pl_calls, [call |-> "create", batch |-> <<>>])
                /\ ac_nextId' = ac_nextId + 1
    /\ pl_pc' = "append"
    /\ UNCHANGED <<plInput, pl_uris, pl_i, pl_run>>
    /\ UNCHANGED notPlVars

\* One turn of the batch loop (lines 206-208, 364-366; new_releases.py 250-252).
AppendBatch ==
    /\ pl_pc = "append"
    /\ pl_i < Len(pl_uris)
    /\ ac_playlists' = AddItems(ac_playlists, pl_target, BatchAt(pl_uris, pl_i))
    /\ pl_calls' = Append(pl_calls, [call |-> "add", batch |-> BatchAt(pl_uris, pl_i)])
    /\ pl_i' = pl_i + BatchSize
    /\ UNCHANGED <<plInput, pl_uris, ac_nextId, pl_pc, pl_target, pl_run>>
    /\ UNCHANGED notPlVars

\* A slip that would go on with the next batch after a failed call.
AddItemsErrorSkipped(op) == TRUE

\* No handler stands around sp.playlist_add_items (lines 204-208, 362-366);
\* main of new_releases.py logs the error and raises it again (262-264).
AddItemsErrorCaught(op) == FALSE

\* sp.playlist_add_items raises: the call was sent and the service wrote
\* nothing; the error leaves the loop and the function.
AppendBatchFails ==
    /\ pl_pc = "append"
    /\ pl_i < Len(pl_uris)
    /\ pl_calls' = Append(pl_calls, [call |-> "addfail", batch |-> BatchAt(pl_uris, pl_i)])
    /\ IF AddItemsErrorCaught(pl_op)
       THEN pl_pc' = "append" /\ pl_i' = pl_i + BatchSize
       ELSE pl_pc' = "raised" /\ pl_i' = pl_i
    /\ UNCHANGED <<plInput, pl_uris, ac_playlists, ac_nextId, pl_target, pl_run>>
    /\ UNCHANGED notPlVars

\* The loop is over, or the list was empty (lines 204/211, 362/368).
EndMaterialize ==
    /\ pl_pc = "append"
    /\ pl_i >= Len(pl_uris)
    /\ pl_pc' = "done"
    /\ UNCHANGED <<plInput, pl_uris, ac_playlists, ac_nextId, pl_target, pl_i, pl_calls, pl_run>>
    /\ UNCHANGED notPlVars

\* The script is run again with the same name.  The recent and playcount lists
\* are computed afresh from the same library; new_releases.py leaves out what
\* it finds in the destination playlist (line 236), so its list is empty or,
\* when that fetch gave nothing, the same again.
RunAgain ==
    /\ pl_pc = "done"
    /\ pl_run < MaxRuns
    /\ pl_uris' \in (IF pl_op = "news" THEN {<<>>, pl_uris} ELSE {pl_uris})
    /\ pl_run' = pl_run + 1
    /\ pl_pc' = "resolve"
    /\ pl_target' = 0
    /\ pl_i' = 0
    /\ pl_calls' = <<>>
    /\ UNCHANGED <<plInput, ac_playlists, ac_nextId>>
    /\ UNCHANGED notPlVars

PlNext ==
    \/ ResolveAndClear
    \/ ResolveOrCreate
    \/ AppendBatch
    \/ AppendBatchFails
    \/ EndMaterialize
    \/ RunAgain

(***************************************************************************)
(* Part 4.  The Last.fm calls (smart_playlists.py 70-95 and 268-309).      *)
(* rt_kind says what is run: "plain", a function under                     *)
(* retry_on_rate_limit that lets the service's answer and errors through   *)
(* (as the functions of the tests do); "track", get_lastfm_track_playcount;*)
(* "bulk", get_all_lastfm_playcounts, which is not under the wrapper.      *)
(* An answer of the service is "count" (a play count), "none" (no count),  *)
(* "rate" (pylast.WSError with status 29), "wserr" (pylast.WSError with    *)
(* another status) or "exc" (any other exception).                         *)
(***************************************************************************)
MaxRetries == 3
MaxDelay == 2
MaxStream == 2

Answers == {"count", "none", "rate", "wserr", "exc"}
Errors == {"rate", "wserr", "exc"}
ScrobbleKinds == {"plain", "track", "bulk"}

\* Artist and title of a top track, folded into one name, and str.lower().
TrackNames == {"A", "a", "b"}
Lower(n) == IF n = "A" THEN "a" ELSE n
Keys == {Lower(n) : n \in TrackNames}
Weights == 1..2
TopTracks == [name : TrackNames, weight : Weights]
NoEntry == 0 - 1
EmptyTable == [k \in Keys |-> NoEntry]

RECURSIVE Pow2(_)
Pow2(n) == IF n <= 0 THEN 1 ELSE 2 * Pow2(n - 1)

RtIdle ==
    /\ rt_kind = "none"
    /\ rt_max = 0
    /\ rt_delay = 0
    /\ rt_retries = 0
    /\ rt_calls = 0
    /\ rt_history = <<>>
    /\ rt_waits = <<>>
    /\ rt_pc = "idle"
    /\ rt_result = "unset"
    /\ bk_stream = <<>>
    /\ bk_failAt = 0
    /\ bk_err = "rate"
    /\ bk_pos = 0
    /\ bk_table = EmptyTable

\* The wrapped calls take any max_retries >= 0 and initial_delay; the bulk
\* fetch takes a stream and the place where it fails (0: nowhere; k: on the
\* way to its k-th entry).
RtStart ==
    /\ rt_kind \in ScrobbleKinds
    /\ IF rt_kind = "bulk"
       THEN /\ rt_max = 0
            /\ rt_delay = 0
            /\ bk_stream \in SeqsUpTo(TopTracks, MaxStream)
            /\ bk_failAt \in 0..(Len(bk_stream) + 1)
            /\ bk_err \in Errors
       ELSE /\ rt_max \in 0..MaxRetries
            /\ rt_delay \in 1..MaxDelay
            /\ bk_stream = <<>>
            /\ bk_failAt = 0
            /\ bk_err = "rate"
    /\ rt_retries = 0
    /\ rt_calls = 0
    /\ rt_history = <<>>
    /\ rt_waits = <<>>
    /\ rt_pc = "call"
    /\ rt_result = "unset"
    /\ bk_pos = 0
    /\ bk_table = EmptyTable

\* A slip of line 275: a handler that lets the rate-limit error through to
\* the wrapper.
FuncOutcomeRateLimitThrough(kind, answer) ==
    IF kind = "track"
    THEN (IF answer \in {"count", "rate"} THEN answer ELSE "zero")
    ELSE answer

\* What the wrapped function does with the service's answer.  Lines 271-276:
\* get_lastfm_track_playcount returns the count, 0 for no count, and 0 for
\* every exception.  A plain function hands the answer on.
FuncOutcome(kind, answer) ==
    IF kind = "track"
    THEN (IF answer = "count" THEN "count" ELSE "zero")
    ELSE answer

\* A slip that would retry every error of the service.
IsRateLimitAnyWSError(outcome) == outcome \in {"rate", "wserr"}

\* Lines 78-79: except pylast.WSError with str(e.status) == "29".
IsRateLimit(outcome) == outcome = "rate"

\* A slip of line 81: giving up one retry early.
ExhaustedEarly(retries, max_retries) == retries >= max_retries

\* Line 81: if retries > max_retries.
Exhausted(retries, max_retries) == retries > max_retries

\* Line 84: initial_delay * (2 ** (retries - 1)).
WaitTime(initial_delay, retries) == initial_delay * Pow2(retries - 1)

\* One turn of the loop of lines 75-92: the call of line 77 and what follows
\* it.  With max_retries >= 0 the loop condition holds whenever it is tested
\* (retries grows only at line 80, and line 83 leaves when it passes
\* max_retries), so line 93 is not reached.
Attempt(answer) ==
    /\ rt_kind \in {"plain", "track"}
    /\ rt_pc = "call"
    /\ rt_retries <= rt_max
    /\ rt_calls' = rt_calls + 1
    /\ rt_history' = Append(rt_history, answer)
    /\ LET r == FuncOutcome(rt_kind, answer)
       IN  CASE r \notin Errors ->
                  /\ rt_pc' = "returned"
                  /\ rt_result' = r
                  /\ UNCHANGED <<rt_retries, rt_waits>>
             [] IsRateLimit(r) ->
                  /\ rt_retries' = rt_retries + 1
                  /\ IF Exhausted(rt_retries + 1, rt_max)
                     THEN /\ rt_pc' = "raised"
                          /\ rt_result' = r
                          /\ UNCHANGED rt_waits
                     ELSE /\ rt_waits' = Append(rt_waits, WaitTime(rt_delay, rt_retries + 1))
                          /\ UNCHANGED <<rt_pc, rt_result>>
             [] OTHER ->
                  /\ rt_pc' = "raised"
                  /\ rt_result' = r
                  /\ UNCHANGED <<rt_retries, rt_waits>>
    /\ UNCHANGED <<rtInput, bk_pos, bk_table>>
    /\ UNCHANGED notRtVars

\* Line 287: the one request for the stream of top tracks.
BulkOpen ==
    /\ rt_kind = "bulk"
    /\ rt_pc = "call"
    /\ rt_calls' = rt_calls + 1
    /\ rt_pc' = "stream"
    /\ UNCHANGED <<rtInput, rt_retries, rt_history, rt_waits, rt_result, bk_pos, bk_table>>
    /\ UNCHANGED notRtVars

\* Lines 289-295: one entry of the stream goes into the table.
BulkRead ==
    /\ rt_kind = "bulk"
    /\ rt_pc = "stream"
    /\ bk_pos < Len(bk_stream)
    /\ bk_failAt # bk_pos + 1
    /\ bk_table' = [bk_table EXCEPT ![Lower(bk_stream[bk_pos + 1].name)] =
                        bk_stream[bk_pos + 1].weight]
    /\ bk_pos' = bk_pos + 1
    /\ UNCHANGED <<rtInput, rt_retries, rt_calls, rt_history, rt_waits, rt_pc, rt_result>>
    /\ UNCHANGED notRtVars

\* A slip that would catch the rate-limit error alone.
BulkCatchesRateLimitOnly(err) == err = "rate"

\* Lines 300-306: except pylast.WSError (of either status) and except
\* Exception.
BulkCatches(err) == err \in {"rate", "wserr", "exc"}

\* Lines 300-309: an error of the stream is logged and the table is returned.
BulkFail ==
    /\ rt_kind = "bulk"
    /\ rt_pc = "stream"
    /\ bk_failAt = bk_pos + 1
    /\ rt_history' = Append(rt_history, bk_err)
    /\ IF BulkCatches(bk_err)
       THEN rt_pc' = "returned" /\ rt_result' = "table"
       ELSE rt_pc' = "raised" /\ rt_result' = bk_err
    /\ UNCHANGED <<rtInput, rt_retries, rt_calls, rt_waits, bk_pos, bk_table>>
    /\ UNCHANGED notRtVars

\* Lines 308-309: the stream is through.
BulkEnd ==
    /\ rt_kind = "bulk"
    /\ rt_pc = "stream"
    /\ bk_pos = Len(bk_stream)
    /\ bk_failAt # bk_pos + 1
    /\ rt_pc' = "returned"
    /\ rt_result' = "table"
    /\ UNCHANGED <<rtInput, rt_retries, rt_calls, rt_history, rt_waits, bk_pos, bk_table>>
    /\ UNCHANGED notRtVars

RtNext ==
    \/ \E answer \in Answers : Attempt(answer)
    \/ BulkOpen
    \/ BulkRead
    \/ BulkFail
    \/ BulkEnd

(***************************************************************************)
(* Part 5.  The paginated fetchers: get_all_playlist_tracks and            *)
(* get_liked_songs of smart_playlists.py (lines 97-127), get_saved_tracks  *)
(* and get_playlist_tracks of new_releases.py (lines 86-125).              *)
(*                                                                         *)
(* The remote collection has ft_size items; the item at position i is the  *)
(* track i, but for one position (ft_hole, 0 for none) that holds an item  *)
(* of another shape: a null item, an item whose track is null, or a track  *)
(* without an id (a local file).  The request number ft_failAt fails (0:   *)
(* none does).  One action is one turn of the loop: a page request and the *)
(* handling of its items.                                                  *)
(***************************************************************************)
TracksPageLimit == 100
LikedPageLimit == 50

MaxColl == 201
MaxFailAt == 2

Fetchers == {"get_all_playlist_tracks", "get_liked_songs",
             "get_saved_tracks", "get_playlist_tracks"}

HoleKinds == {"null", "notrack", "noid"}

HolePositions == {1, LikedPageLimit, LikedPageLimit + 1,
                  TracksPageLimit, TracksPageLimit + 1}

\* item['track']['id'] of a track without an id.
NoneId == 0

\* Lines 100 and 117 of smart_playlists.py, 90 and 109 of new_releases.py.
LimitOf(kind) ==
    IF kind \in {"get_all_playlist_tracks", "get_playlist_tracks"}
    THEN TracksPageLimit
    ELSE LikedPageLimit

FtIdle ==
    /\ ft_kind = "none"
    /\ ft_size = 0
    /\ ft_hole = 0
    /\ ft_holeKind = "none"
    /\ ft_failAt = 0
    /\ ft_offset = 0
    /\ ft_requests = 0
    /\ ft_tracks = <<>>
    /\ ft_ids = {}
    /\ ft_pc = "idle"
    /\ ft_log = 0

FtStart ==
    /\ ft_kind \in Fetchers
    /\ ft_size \in 0..MaxColl
    /\ ft_hole \in {0} \cup {h \in HolePositions : h <= ft_size}
    /\ ft_holeKind \in (IF ft_hole = 0 THEN {"none"} ELSE HoleKinds)
    /\ ft_failAt \in 0..MaxFailAt
    /\ ft_offset = 0
    /\ ft_requests = 0
    /\ ft_tracks = <<>>
    /\ ft_ids = {}
    /\ ft_pc = "fetch"
    /\ ft_log = 0

\* The shape of the item at position i.
ShapeAt(i) == IF i = ft_hole THEN ft_holeKind ELSE "track"

IdAt(i) == IF ShapeAt(i) = "noid" THEN NoneId ELSE i

\* The service's page: the items after offset, at most limit of them, and
\* whether there is a further page ('next').
PageLast(offset, limit) == Min(offset + limit, ft_size)

HasNext(offset, limit) == offset + limit < ft_size

\* A slip that would pass over an item between two pages.
NextOffsetSkipping(offset, limit) == offset + limit + 1

\* offset += limit; sp.next(results) asks for the same place.
NextOffset(offset, limit) == offset + limit

\* The shapes a fetcher's item handling leaves out.
\* smart_playlists.py 104: if item and item.get('track').
\* smart_playlists.py 121-124 and new_releases.py 92-93, 97-98: no filter.
\* new_releases.py 112, 118: if item['track'] and item['track']['id'].
SkipsOn(kind) ==
    CASE kind = "get_all_playlist_tracks" -> {"null", "notrack"}
      [] kind = "get_playlist_tracks" -> {"notrack", "noid"}
      [] OTHER -> {}

\* The shapes on which a fetcher's item handling raises TypeError.
\* smart_playlists.py 122: item['track'] of a null item.
\* new_releases.py 93, 98: item['track']['id'] of a null item or a null track.
\* new_releases.py 112, 118: item['track'] of a null item.
RaisesOn(kind) ==
    CASE kind = "get_liked_songs" -> {"null"}
      [] kind = "get_saved_tracks" -> {"null", "notrack"}
      [] kind = "get_playlist_tracks" -> {"null"}
      [] OTHER -> {}

\* The first position of lo..hi on which the fetcher raises; hi + 1 if none.
RaiseAt(kind, lo, hi) ==
    IF \E i \in lo..hi : ShapeAt(i) \in RaisesOn(kind)
    THEN SetMin({i \in lo..hi : ShapeAt(i) \in RaisesOn(kind)})
    ELSE hi + 1

\* The positions of lo..hi in order, without those the fetcher leaves out.
KeptItems(kind, lo, hi) ==
    SelectSeq([k \in 1..(hi - lo + 1) |-> lo + k - 1],
              LAMBDA i : ShapeAt(i) \notin SkipsOn(kind))

KeptIds(kind, lo, hi) ==
    {IdAt(i) : i \in {j \in lo..hi : ShapeAt(j) \notin SkipsOn(kind)}}

\* smart_playlists.py 101-112: one turn of the loop of get_all_playlist_tracks.
GetAllPlaylistTracks ==
    /\ ft_kind = "get_all_playlist_tracks"
    /\ ft_pc = "fetch"
    /\ ft_requests' = ft_requests + 1
    /\ IF ft_failAt = ft_requests + 1
       THEN /\ ft_log' = ft_log + 1
            /\ ft_pc' = "done"
            /\ UNCHANGED <<ft_offset, ft_tracks>>
       ELSE /\ ft_tracks' = ft_tracks \o
                  KeptItems(ft_kind, ft_offset + 1, PageLast(ft_offset, LimitOf(ft_kind)))
            /\ IF HasNext(ft_offset, LimitOf(ft_kind))
               THEN /\ ft_offset' = NextOffset(ft_offset, LimitOf(ft_kind))
                    /\ UNCHANGED ft_pc
               ELSE /\ ft_pc' = "done"
                    /\ UNCHANGED ft_offset
            /\ UNCHANGED ft_log
    /\ UNCHANGED <<ftInput, ft_ids>>
    /\ UNCHANGED notFtVars

\* smart_playlists.py 118-126: one turn of the loop of get_liked_songs.  No
\* handler: a failing request and a TypeError leave the function.
GetLikedSongs ==
    /\ ft_kind = "get_liked_songs"
    /\ ft_pc = "fetch"
    /\ ft_requests' = ft_requests + 1
    /\ LET lo == ft_offset + 1
           hi == PageLast(ft_offset, LimitOf(ft_kind))
       IN  CASE ft_failAt = ft_requests + 1 ->
                  /\ ft_pc' = "raised"
                  /\ UNCHANGED <<ft_offset, ft_tracks>>
             [] ft_failAt # ft_requests + 1 /\ hi < lo ->
                  /\ ft_pc' = "done"
                  /\ UNCHANGED <<ft_offset, ft_tracks>>
             [] ft_failAt # ft_requests + 1 /\ hi >= lo
                    /\ RaiseAt(ft_kind, lo, hi) <= hi ->
                  /\ ft_pc' = "raised"
                  /\ UNCHANGED <<ft_offset, ft_tracks>>
             [] OTHER ->
                  /\ ft_tracks' = ft_tracks \o KeptItems(ft_kind, lo, hi)
                  /\ ft_offset' = NextOffset(ft_offset, LimitOf(ft_kind))
                  /\ UNCHANGED ft_pc
    /\ UNCHANGED <<ftInput, ft_ids, ft_log>>
    /\ UNCHANGED notFtVars

\* new_releases.py 90-98: a request of get_saved_tracks (the first one or
\* sp.next) and the loop over its items.  No handler.
GetSavedTracks ==
    /\ ft_kind = "get_saved_tracks"
    /\ ft_pc = "fetch"
    /\ ft_requests' = ft_requests + 1
    /\ LET lo == ft_offset + 1
           hi == PageLast(ft_offset, LimitOf(ft_kind))
           stop == RaiseAt(ft_kind, lo, hi)
       IN  CASE ft_failAt = ft_requests + 1 ->
                  /\ ft_pc' = "raised"
                  /\ UNCHANGED <<ft_offset, ft_ids>>
             [] ft_failAt # ft_requests + 1 /\ stop <= hi ->
                  /\ ft_ids' = ft_ids \cup KeptIds(ft_kind, lo, stop - 1)
                  /\ ft_pc' = "raised"
                  /\ UNCHANGED ft_offset
             [] OTHER ->
                  /\ ft_ids' = ft_ids \cup KeptIds(ft_kind, lo, hi)
                  /\ IF HasNext(ft_offset, LimitOf(ft_kind))
                     THEN /\ ft_offset' = NextOffset(ft_offset, LimitOf(ft_kind))
                          /\ UNCHANGED ft_pc
                     ELSE /\ ft_pc' = "done"
                          /\ UNCHANGED ft_offset
    /\ UNCHANGED <<ftInput, ft_tracks, ft_log>>
    /\ UNCHANGED notFtVars

\* new_releases.py 108-123: a request of get_playlist_tracks and the loop
\* over its items; every exception is logged and the set is returned.
GetPlaylistTracks ==
    /\ ft_kind = "get_playlist_tracks"
    /\ ft_pc = "fetch"
    /\ ft_requests' = ft_requests + 1
    /\ LET lo == ft_offset + 1
           hi == PageLast(ft_offset, LimitOf(ft_kind))
           stop == RaiseAt(ft_kind, lo, hi)
       IN  CASE ft_failAt = ft_requests + 1 ->
                  /\ ft_log' = ft_log + 1
                  /\ ft_pc' = "done"
                  /\ UNCHANGED <<ft_offset, ft_ids>>
             [] ft_failAt # ft_requests + 1 /\ stop <= hi ->
                  /\ ft_ids' = ft_ids \cup KeptIds(ft_kind, lo, stop - 1)
                  /\ ft_log' = ft_log + 1
                  /\ ft_pc' = "done"
                  /\ UNCHANGED ft_offset
             [] OTHER ->
                  /\ ft_ids' = ft_ids \cup KeptIds(ft_kind, lo, hi)
                  /\ IF HasNext(ft_offset, LimitOf(ft_kind))
                     THEN /\ ft_offset' = NextOffset(ft_offset, LimitOf(ft_kind))
                          /\ UNCHANGED ft_pc
                     ELSE /\ ft_pc' = "done"
                          /\ UNCHANGED ft_offset
                  /\ UNCHANGED ft_log
    /\ UNCHANGED <<ftInput, ft_tracks>>
    /\ UNCHANGED notFtVars

FtNext ==
    \/ GetAllPlaylistTracks
    \/ GetLikedSongs
    \/ GetSavedTracks
    \/ GetPlaylistTracks

(***************************************************************************)
(* Part 6.  Fetching and normalizing the raw items of one source, on the   *)
(* two paths of smart_playlists.py: the library build (lines 214-255) and  *)
(* the recent tracks (lines 137-181).  The source is within one page and   *)
(* every item is dated after the cutoff; the item at position i is the     *)
(* track of uri i unless its shape says otherwise: a null item, an item    *)
(* whose track is null, a track with no 'uri' key, a track whose uri is    *)
(* null.                                                                   *)
(***************************************************************************)
MaxRaw == 3

RawShapes == {"track", "null", "notrack", "nourikey", "nulluri"}

NzSources == {"liked", "playlist"}

NzPaths == {"library", "recent"}

\* The uri of a record made from a track whose uri is null.
NullUri == 0

NzIdle ==
    /\ nz_source = "none"
    /\ nz_path = "none"
    /\ nz_raw = <<>>
    /\ nz_fetched = <<>>
    /\ nz_i = 0
    /\ nz_records = <<>>
    /\ nz_pc = "idle"
    /\ nz_log = 0

NzStart ==
    /\ nz_source \in NzSources
    /\ nz_path \in NzPaths
    /\ nz_raw \in SeqsUpTo(RawShapes, MaxRaw)
    /\ nz_fetched = <<>>
    /\ nz_i = 0
    /\ nz_records = <<>>
    /\ nz_pc = "fetch"
    /\ nz_log = 0

Some(uri) == [out |-> "record", uri |-> uri]
None == [out |-> "none", uri |-> NullUri]
Raise == [out |-> "raise", uri |-> NullUri]

\* Lines 214-227: _create_track_dict(item['track']); None for a null track
\* and for a track whose uri is missing or null.
CreateTrackDict(shape, pos) ==
    IF shape \in {"notrack", "nourikey", "nulluri"} THEN None ELSE Some(pos)

\* Lines 234-237 (liked: item['track'] of the item, no test of the item) and
\* lines 249-253 (playlist: if item and item.get('track')).
NormalizeLibraryItem(source, shape, pos) ==
    CASE shape = "null" -> IF source = "liked" THEN Raise ELSE None
      [] OTHER -> CreateTrackDict(shape, pos)

\* Lines 160-172: _extract_track_data, called under the handler of lines
\* 152-157, which logs what the item raises.
ExtractTrackData(shape, pos) ==
    CASE shape \in {"null", "notrack"} -> None
      [] shape = "nourikey" -> Raise
      [] shape = "nulluri" -> Some(NullUri)
      [] OTHER -> Some(pos)

\* Lines 177-181: the element of the list of _get_recent_liked_tracks,
\* item['track']['uri'] with no test and no handler.
RecentLikedItem(shape, pos) ==
    CASE shape \in {"null", "notrack", "nourikey"} -> Raise
      [] shape = "nulluri" -> Some(NullUri)
      [] OTHER -> Some(pos)

\* What the fetcher hands on: get_all_playlist_tracks leaves out the null
\* items and the items without a track (line 104).
FetchedPositions(source, raw) ==
    SelectSeq([i \in 1..Len(raw) |-> i],
              LAMBDA i : source = "liked" \/ raw[i] \notin {"null", "notrack"})

\* get_liked_songs (lines 121-124) raises on a null item; a playlist's
\* fetch does not raise.
NzFetch ==
    /\ nz_pc = "fetch"
    /\ IF nz_source = "liked" /\ \E i \in 1..Len(nz_raw) : nz_raw[i] = "null"
       THEN /\ nz_pc' = "raised"
            /\ UNCHANGED <<nz_fetched, nz_i>>
       ELSE /\ nz_fetched' = FetchedPositions(nz_source, nz_raw)
            /\ nz_i' = 1
            /\ nz_pc' = "items"
    /\ UNCHANGED <<nzInput, nz_records, nz_log>>
    /\ UNCHANGED notNzVars

\* One item of the library build: lines 234-237 and 249-253.
NzLibraryItem ==
    /\ nz_pc = "items"
    /\ nz_path = "library"
    /\ nz_i <= Len(nz_fetched)
    /\ LET pos == nz_fetched[nz_i]
           r == NormalizeLibraryItem(nz_source, nz_raw[pos], pos)
       IN  CASE r.out = "record" ->
                  /\ nz_records' = Append(nz_records, r.uri)
                  /\ nz_i' = nz_i + 1
                  /\ UNCHANGED <<nz_pc, nz_log>>
             [] r.out = "none" ->
                  /\ nz_i' = nz_i + 1
                  /\ UNCHANGED <<nz_records, nz_pc, nz_log>>
             [] OTHER ->
                  \* liked: no handler; playlist: lines 254-255 log it and
                  \* leave the rest of the playlist.
                  /\ IF nz_source = "liked"
                     THEN nz_pc' = "raised" /\ UNCHANGED nz_log
                     ELSE nz_pc' = "done" /\ nz_log' = nz_log + 1
                  /\ UNCHANGED <<nz_records, nz_i>>
    /\ UNCHANGED <<nzInput, nz_fetched>>
    /\ UNCHANGED notNzVars

\* One item of the recent tracks: lines 151-157 for a playlist, the list of
\* lines 177-181 for the liked songs.
NzRecentItem ==
    /\ nz_pc = "items"
    /\ nz_path = "recent"
    /\ nz_i <= Len(nz_fetched)
    /\ LET pos == nz_fetched[nz_i]
           r == IF nz_source = "playlist"
                THEN ExtractTrackData(nz_raw[pos], pos)
                ELSE RecentLikedItem(nz_raw[pos], pos)
       IN  CASE r.out = "record" ->
                  /\ nz_records' = Append(nz_records, r.uri)
                  /\ nz_i' = nz_i + 1
                  /\ UNCHANGED <<nz_pc, nz_log>>
             [] r.out = "none" ->
                  /\ nz_i' = nz_i + 1
                  /\ UNCHANGED <<nz_records, nz_pc, nz_log>>
             [] OTHER ->
                  /\ IF nz_source = "liked"
                     THEN /\ nz_pc' = "raised"
                          /\ UNCHANGED <<nz_i, nz_log>>
                     ELSE /\ nz_log' = nz_log + 1
                          /\ nz_i' = nz_i + 1
                          /\ UNCHANGED nz_pc
                  /\ UNCHANGED nz_records
    /\ UNCHANGED <<nzInput, nz_fetched>>
    /\ UNCHANGED notNzVars

NzEnd ==
    /\ nz_pc = "items"
    /\ nz_i > Len(nz_fetched)
    /\ nz_pc' = "done"
    /\ UNCHANGED <<nzInput, nz_fetched, nz_i, nz_records, nz_log>>
    /\ UNCHANGED notNzVars

NzNext ==
    \/ NzFetch
    \/ NzLibraryItem
    \/ NzRecentItem
    \/ NzEnd

(***************************************************************************)
(* Part 7.  match_spotify_with_lastfm (smart_playlists.py 311-349): the    *)
(* library is a dict, walked in insertion order; the table is what         *)
(* get_all_lastfm_playcounts returned, its keys the lowercased artist and  *)
(* title of the top tracks.                                                *)
(***************************************************************************)
MaxLib == 2

Artists == {"A", "a", "b"}
Names == {"A", "a"}

\* f"{artist}|||{name}" of the lowercased artist and name.
KeyJoin(artist, name) == <<artist, name>>

TableKeys == {KeyJoin(Lower(a), Lower(n)) : a \in Artists, n \in Names}

TableValues == {NoEntry, 0, 2}

LibEntries == [uri : 1..MaxLib, name : Names, artist : Artists]

DistinctUris(lib) == \A i, j \in 1..Len(lib) : i # j => lib[i].uri # lib[j].uri

MtIdle ==
    /\ mt_library = <<>>
    /\ mt_table = [k \in TableKeys |-> NoEntry]
    /\ mt_idx = 0
    /\ mt_matched = <<>>
    /\ mt_missing = <<>>
    /\ mt_pc = "idle"

MtStart ==
    /\ mt_library \in {lib \in SeqsUpTo(LibEntries, MaxLib) : DistinctUris(lib)}
    /\ mt_table \in [TableKeys -> TableValues]
    /\ mt_idx = 1
    /\ mt_matched = <<>>
    /\ mt_missing = <<>>
    /\ mt_pc = "loop"

\* A slip that would join on the letters as they are.
KeyOfCaseSensitive(track_data) == KeyJoin(track_data.artist, track_data.name)

\* Lines 323-325.
KeyOf(track_data) == KeyJoin(Lower(track_data.artist), Lower(track_data.name))

\* Line 327: lastfm_library.get(key), NoEntry for None.
TableGet(table, key) == IF key \in DOMAIN table THEN table[key] ELSE NoEntry

\* Lines 322-340: one entry of the library.
MatchEntry ==
    /\ mt_pc = "loop"
    /\ mt_idx <= Len(mt_library)
    /\ LET track_data == mt_library[mt_idx]
           got == TableGet(mt_table, KeyOf(track_data))
           playcount == IF got = NoEntry THEN 0 ELSE got
       IN  /\ mt_missing' = IF got = NoEntry
                            THEN Append(mt_missing, track_data)
                            ELSE mt_missing
           /\ mt_matched' = Append(mt_matched,
                                [uri |-> track_data.uri, name |-> track_data.name,
                                 artist |-> track_data.artist, playcount |-> playcount])
    /\ mt_idx' = mt_idx + 1
    /\ UNCHANGED <<mt_library, mt_table, mt_pc>>
    /\ UNCHANGED notMtVars

\* Lines 345-349.
MatchReturn ==
    /\ mt_pc = "loop"
    /\ mt_idx > Len(mt_library)
    /\ mt_pc' = "done"
    /\ UNCHANGED <<mt_library, mt_table, mt_idx, mt_matched, mt_missing>>
    /\ UNCHANGED notMtVars

MtNext ==
    \/ MatchEntry
    \/ MatchReturn

(***************************************************************************)
(* Part 8.  get_recent_tracks_from_playlists (smart_playlists.py 129-181): *)
(* the items of the source playlists and of the liked songs are filtered   *)
(* by date, put one after the other, and handed to                         *)
(* _process_and_sort_tracks (Part 1), whose result is the uri sequence     *)
(* that update_recent_tracks_playlist writes.  Dates are days; an item is  *)
(* [uri, added_at].                                                        *)
(***************************************************************************)
MaxRecent == 3

WindowDays == 30
Today == 100

\* How long ago an item was added: within the window, at its edge, before it.
AgesInDays == {2, 5, WindowDays, 40}

RecentUris == {"t1", "t2", "t3"}

RecentItems == [uri : RecentUris, added_at : {Today - age : age \in AgesInDays}]

RcIdle ==
    /\ rc_playlists = <<>>
    /\ rc_liked = <<>>
    /\ rc_cutoff = 0
    /\ rc_recent = <<>>
    /\ rc_pc = "idle"

\* The date filters and the merge are run with the items well-formed and
\* the fetches successful.
RcStart ==
    /\ rc_playlists \in SeqsUpTo(RecentItems, MaxRecent)
    /\ rc_liked \in SeqsUpTo(RecentItems, MaxRecent - Len(rc_playlists))
    /\ rc_cutoff = 0
    /\ rc_recent = <<>>
    /\ rc_pc = "start"

\* A slip that would let in a track dated at the cutoff.
IsRecentInclusive(added_at, cutoff) == added_at >= cutoff

\* Line 165 (added_at <= cutoff_date: None) and line 180 (> cutoff_date).
IsRecent(added_at, cutoff) == added_at > cutoff

RecentOf(items, cutoff) ==
    SelectSeq(items, LAMBDA item : IsRecent(item.added_at, cutoff))

\* Lines 130-132: the cutoff, and _get_recent_playlist_tracks (137-172).
GetRecentPlaylistTracks ==
    /\ rc_pc = "start"
    /\ rc_cutoff' = Today - WindowDays
    /\ rc_recent' = RecentOf(rc_playlists, Today - WindowDays)
    /\ rc_pc' = "liked"
    /\ UNCHANGED <<rc_playlists, rc_liked>>
    /\ UNCHANGED <<mergeVars, notMergeRcVars>>

\* Lines 133-135: _get_recent_liked_tracks (174-181), all_tracks =
\* playlist_tracks + liked_tracks, and the call of _process_and_sort_tracks.
GetRecentLikedTracks ==
    /\ rc_pc = "liked"
    /\ m_pc = "idle"
    /\ m_tracks' = rc_recent \o RecentOf(rc_liked, rc_cutoff)
    /\ m_pc' = "loop"
    /\ rc_pc' = "merge"
    /\ UNCHANGED <<m_i, m_unique, m_result>>
    /\ UNCHANGED <<rc_playlists, rc_liked, rc_cutoff, rc_recent>>
    /\ UNCHANGED notMergeRcVars

RcNext ==
    \/ GetRecentPlaylistTracks
    \/ GetRecentLikedTracks
    \/ ProcessTrack
    \/ SortTracks

(***************************************************************************)
(* Part 9.  update_playcount_playlists (smart_playlists.py 371-416): the   *)
(* selection of the most and the least played tracks from the matched      *)
(* list, and the two calls of create_or_update_playlist.  A matched track  *)
(* is [uri, playcount], its uri its place in the matched list.  The lists  *)
(* are made of groups of tracks of one playcount, of sizes around the      *)
(* selection size, laid out group after group or one of each in turn.      *)
(***************************************************************************)
SelectionSize == 25

MaxCount == 2
MaxShift == 2

PlayCounts == 0..MaxCount

GroupSizes == {0, 1, 2, SelectionSize - 1, SelectionSize, SelectionSize + 1}

Layouts == {"ascending", "descending", "mixed"}

Reverse(s) == [k \in 1..Len(s) |-> s[Len(s) + 1 - k]]

RECURSIVE GroupsFrom(_, _)
GroupsFrom(sizes, c) ==
    IF c > MaxCount THEN <<>>
    ELSE [k \in 1..sizes[c] |-> c] \o GroupsFrom(sizes, c + 1)

RECURSIVE RoundsFrom(_, _)
RoundsFrom(sizes, k) ==
    IF \A c \in PlayCounts : sizes[c] < k THEN <<>>
    ELSE SelectSeq([j \in 1..(MaxCount + 1) |-> j - 1], LAMBDA c : sizes[c] >= k)
            \o RoundsFrom(sizes, k + 1)

CountsLaidOut(sizes, layout) ==
    CASE layout = "ascending" -> GroupsFrom(sizes, 0)
      [] layout = "descending" -> Reverse(GroupsFrom(sizes, 0))
      [] OTHER -> RoundsFrom(sizes, 1)

MatchedOf(counts) == [k \in 1..Len(counts) |-> [uri |-> k, playcount |-> counts[k]]]

MatchedLists ==
    {MatchedOf(CountsLaidOut(sizes, layout)) :
        sizes \in [PlayCounts -> GroupSizes], layout \in Layouts}

PkIdle ==
    /\ pk_matched = <<>>
    /\ pk_played = <<>>
    /\ pk_top = <<>>
    /\ pk_left = {}
    /\ pk_bottomTracks = <<>>
    /\ pk_bottom = <<>>
    /\ pk_calls = <<>>
    /\ pk_pc = "idle"

PkStart ==
    /\ pk_matched \in MatchedLists
    /\ pk_played = <<>>
    /\ pk_top = <<>>
    /\ pk_left = {}
    /\ pk_bottomTracks = <<>>
    /\ pk_bottom = <<>>
    /\ pk_calls = <<>>
    /\ pk_pc = "select"

\* A slip that would let the unplayed tracks in.
IsPlayedAny(t) == TRUE

\* Line 381: if t['playcount'].
IsPlayed(t) == t.playcount # 0

\* sorted(played_tracks, key=playcount, reverse=True), a stable sort: the
\* tracks of the greatest playcount in their order in the list, then those
\* of the next.
RECURSIVE ByPlaycountDescFrom(_, _)
ByPlaycountDescFrom(tracks, c) ==
    IF c < 0 THEN <<>>
    ELSE SelectSeq(tracks, LAMBDA t : t.playcount = c)
            \o ByPlaycountDescFrom(tracks, c - 1)

ByPlaycountDesc(tracks) == ByPlaycountDescFrom(tracks, MaxCount)

\* [:25]
FirstOf(tracks, n) == SubSeq(tracks, 1, Min(n, Len(tracks)))

\* Lines 387-389: playcount_groups[pc], the tracks of a playcount in their
\* order in the list.
GroupOf(tracks, c) == SelectSeq(tracks, LAMBDA t : t.playcount = c)

\* Outcomes of random.SystemRandom().shuffle(group): the group turned by up
\* to MaxShift places, and the group backwards.
Rotated(group, r) ==
    [k \in 1..Len(group) |-> group[((k - 1 + r) % Len(group)) + 1]]

Shuffles(group) ==
    {Rotated(group, r) : r \in 0..Min(MaxShift, Len(group) - 1)} \cup {Reverse(group)}

\* A slip of line 397: leaving the loop with the first group.
EnoughBottomAtOnce(n) == n >= 1

\* Line 397: if len(bottom_tracks) >= 25.
EnoughBottom(n) == n >= SelectionSize

\* Lines 381-389: played_tracks, top_25 and the groups.
SelectTop ==
    /\ pk_pc = "select"
    /\ pk_played' = SelectSeq(pk_matched, IsPlayed)
    /\ pk_top' = FirstOf(ByPlaycountDesc(SelectSeq(pk_matched, IsPlayed)), SelectionSize)
    /\ pk_left' = {t.playcount : t \in
                      {SelectSeq(pk_matched, IsPlayed)[k] :
                          k \in 1..Len(SelectSeq(pk_matched, IsPlayed))}}
    /\ pk_pc' = "bottom"
    /\ UNCHANGED <<pk_matched, pk_bottomTracks, pk_bottom, pk_calls>>
    /\ UNCHANGED notPkVars

\* Lines 393-398: one turn of the loop over the playcounts, ascending.
ShuffleGroup ==
    /\ pk_pc = "bottom"
    /\ pk_left # {}
    /\ \E shuffled \in Shuffles(GroupOf(pk_played, SetMin(pk_left))) :
        /\ pk_bottomTracks' = pk_bottomTracks \o shuffled
        /\ IF EnoughBottom(Len(pk_bottomTracks) + Len(shuffled))
           THEN pk_left' = {}
           ELSE pk_left' = pk_left \ {SetMin(pk_left)}
    /\ UNCHANGED <<pk_matched, pk_played, pk_top, pk_bottom, pk_calls, pk_pc>>
    /\ UNCHANGED notPkVars

\* Line 400: bottom_25 = bottom_tracks[:25].
CutBottom ==
    /\ pk_pc = "bottom"
    /\ pk_left = {}
    /\ pk_bottom' = FirstOf(pk_bottomTracks, SelectionSize)
    /\ pk_pc' = "writeTop"
    /\ UNCHANGED <<pk_matched, pk_played, pk_top, pk_left, pk_bottomTracks, pk_calls>>
    /\ UNCHANGED notPkVars

\* Lines 407-408: create_or_update_playlist(top_playlist_name, top_track_uris).
WriteTop ==
    /\ pk_pc = "writeTop"
    /\ pk_calls' = Append(pk_calls,
                      [name |-> "top", uris |-> [k \in 1..Len(pk_top) |-> pk_top[k].uri]])
    /\ pk_pc' = "writeBottom"
    /\ UNCHANGED <<pk_matched, pk_played, pk_top, pk_left, pk_bottomTracks, pk_bottom>>
    /\ UNCHANGED notPkVars

\* Lines 415-416: create_or_update_playlist(bottom_playlist_name, ...).
WriteBottom ==
    /\ pk_pc = "writeBottom"
    /\ pk_calls' = Append(pk_calls,
                      [name |-> "bottom", uris |-> [k \in 1..Len(pk_bottom) |-> pk_bottom[k].uri]])
    /\ pk_pc' = "done"
    /\ UNCHANGED <<pk_matched, pk_played, pk_top, pk_left, pk_bottomTracks, pk_bottom>>
    /\ UNCHANGED notPkVars

PkNext ==
    \/ SelectTop
    \/ ShuffleGroup
    \/ CutBottom
    \/ WriteTop
    \/ WriteBottom

(***************************************************************************)
(* Part 10.  The uri sequences of the two selections as functions of the   *)
(* order of the source playlists (SOURCE_PLAYLIST_IDS): the recent tracks  *)
(* (smart_playlists.py 129-193, every item within the window) and the top  *)
(* list (lines 257-266, 311-349, 381-384, 407).  The liked songs come last *)
(* in the first (line 134) and first in the second (line 262).             *)
(***************************************************************************)
MaxSourceLen == 1

OdUris == {"t1", "t2"}

OdDates == {1, 2}

OdItems == [uri : OdUris, added_at : OdDates]

OdPlaylists == {1, 2}

OdOrders == {<<1, 2>>, <<2, 1>>}

OdIdle ==
    /\ od_sel = "none"
    /\ od_playlists = [p \in OdPlaylists |-> <<>>]
    /\ od_liked = <<>>
    /\ od_counts = [u \in OdUris |-> 0]
    /\ od_order = <<1, 2>>
    /\ od_result = <<>>
    /\ od_pc = "idle"

\* The dates do not enter the top list, nor the playcounts the recent tracks.
OdStart ==
    /\ od_sel \in {"recent", "top"}
    /\ od_playlists \in [OdPlaylists -> SeqsUpTo(OdItems, MaxSourceLen)]
    /\ od_liked \in SeqsUpTo(OdItems, MaxSourceLen)
    /\ od_sel = "top" =>
        /\ \A p \in OdPlaylists : \A k \in 1..Len(od_playlists[p]) :
              od_playlists[p][k].added_at = 1
        /\ \A k \in 1..Len(od_liked) : od_liked[k].added_at = 1
    /\ od_counts \in (IF od_sel = "top" THEN [OdUris -> PlayCounts]
                                        ELSE {[u \in OdUris |-> 0]})
    /\ od_order \in OdOrders
    /\ od_result = <<>>
    /\ od_pc = "start"

\* Lines 139-144: the playlists one after the other, in the order given.
RECURSIVE PlaylistsInOrder(_, _)
PlaylistsInOrder(playlists, order) ==
    IF order = <<>> THEN <<>>
    ELSE playlists[Head(order)] \o PlaylistsInOrder(playlists, Tail(order))

\* Lines 184-188: the loop of _process_and_sort_tracks.
RECURSIVE UniqueTracks(_, _)
UniqueTracks(unique, tracks) ==
    IF tracks = <<>> THEN unique
    ELSE UniqueTracks(
             IF \/ ~HasUri(unique, Head(tracks).uri)
                \/ ReplacesKept(Head(tracks), EntryOf(unique, Head(tracks).uri))
             THEN PutEntry(unique, Head(tracks))
             ELSE unique,
             Tail(tracks))

\* Lines 132-135 and 189-193.
RecentSequence(playlists, liked, order) ==
    LET kept == SortedDesc(UniqueTracks(<<>>, PlaylistsInOrder(playlists, order) \o liked))
    IN  [k \in 1..Len(kept) |-> kept[k].uri]

\* Lines 234-237: all_tracks[uri] = track_dict for every liked song.
RECURSIVE AddLiked(_, _)
AddLiked(all, items) ==
    IF items = <<>> THEN all
    ELSE AddLiked(PutEntry(all, Head(items)), Tail(items))

\* Lines 249-253: a playlist track goes in when its uri is not there yet.
RECURSIVE AddPlaylistTracks(_, _)
AddPlaylistTracks(all, items) ==
    IF items = <<>> THEN all
    ELSE AddPlaylistTracks(
             IF HasUri(all, Head(items).uri) THEN all ELSE Append(all, Head(items)),
             Tail(items))

\* Lines 261-263: the library, as the sequence of its entries.
LibraryOf(playlists, liked, order) ==
    AddPlaylistTracks(AddLiked(<<>>, liked), PlaylistsInOrder(playlists, order))

\* Lines 322-340, 381-384 and 407: the matched list in the library's order,
\* and the uris of top_25.
TopSequence(playlists, liked, counts, order) ==
    LET library == LibraryOf(playlists, liked, order)
        matched == [k \in 1..Len(library) |->
                      [uri |-> library[k].uri, playcount |-> counts[library[k].uri]]]
        top == FirstOf(ByPlaycountDesc(SelectSeq(matched, IsPlayed)), SelectionSize)
    IN  [k \in 1..Len(top) |-> top[k].uri]

\* update_recent_tracks_playlist (line 196).
SelectRecent ==
    /\ od_pc = "start"
    /\ od_sel = "recent"
    /\ od_result' = RecentSequence(od_playlists, od_liked, od_order)
    /\ od_pc' = "done"
    /\ UNCHANGED <<od_sel, od_playlists, od_liked, od_counts, od_order>>
    /\ UNCHANGED notOdVars

\* update_playcount_playlists (lines 377-384, 407).
SelectTopOfLibrary ==
    /\ od_pc = "start"
    /\ od_sel = "top"
    /\ od_result' = TopSequence(od_playlists, od_liked, od_counts, od_order)
    /\ od_pc' = "done"
    /\ UNCHANGED <<od_sel, od_playlists, od_liked, od_counts, od_order>>
    /\ UNCHANGED notOdVars

OdNext ==
    \/ SelectRecent
    \/ SelectTopOfLibrary

(***************************************************************************)
(* Part 11.  main of new_releases.py (lines 180-264): the known track ids  *)
(* are fetched, the new releases of the followed artists are expanded,     *)
(* and the track ids that are not known are appended to the destination    *)
(* playlist.  The catalog and the library do not change between runs; the  *)
(* collections are within one page, so a failing fetch of a playlist       *)
(* gives the empty set (lines 122-125).                                    *)
(***************************************************************************)
NrMaxRuns == 2

NrTrackIds == {1, 2, 3}

NrAlbumIds == {"a1", "a2"}

NrAlbumTracks == {<<1>>, <<1, 2>>, <<2, 3>>}

NrReleases == {<<>>, <<"a1">>, <<"a2">>, <<"a1", "a2">>}

NrFollowed == {1, 2}

NrIdle ==
    /\ nr_albums = [a \in NrAlbumIds |-> <<>>]
    /\ nr_releases = [f \in NrFollowed |-> <<>>]
    /\ nr_liked = {}
    /\ nr_source = {}
    /\ nr_dest = <<>>
    /\ nr_known = {}
    /\ nr_failed = {}
    /\ nr_artist = 0
    /\ nr_album = 0
    /\ nr_processed = {}
    /\ nr_expanded = <<>>
    /\ nr_toAdd = {}
    /\ nr_appended = <<>>
    /\ nr_run = 0
    /\ nr_past = <<>>
    /\ nr_pc = "idle"

NrStart ==
    /\ nr_albums \in [NrAlbumIds -> NrAlbumTracks]
    /\ nr_releases \in [NrFollowed -> NrReleases]
    /\ nr_liked \in {{}, {1}}
    /\ nr_source \in {{}, {2}}
    /\ nr_dest \in {<<>>, <<3>>, <<1, 3>>}
    /\ nr_known = {}
    /\ nr_failed = {}
    /\ nr_artist = 1
    /\ nr_album = 1
    /\ nr_processed = {}
    /\ nr_expanded = <<>>
    /\ nr_toAdd = {}
    /\ nr_appended = <<>>
    /\ nr_run = 1
    /\ nr_past = <<>>
    /\ nr_pc = "library"

IdsOf(tracks) == {tracks[k] : k \in 1..Len(tracks)}

\* The ways list(new_tracks_to_add) can lay out a set.
OrdersOf(S) ==
    {s \in [1..Cardinality(S) -> S] : \A j, k \in 1..Cardinality(S) : j # k => s[j] # s[k]}

\* new_releases.py 103-125: the ids of a playlist, or none of them when the
\* request fails (the exception is logged, line 123).
PlaylistIdsFetched(ids, fails) == IF fails THEN {} ELSE ids

\* Line 236: tid not in library_tracks.
IsNew(tid, known) == tid \notin known

\* Line 202, get_all_library_tracks (127-145): the liked songs, whose fetch
\* has no handler (86-101), and the source playlist.
FetchLibrary ==
    /\ nr_pc = "library"
    /\ \E likedFails, sourceFails \in BOOLEAN :
        IF likedFails
        THEN /\ nr_pc' = "raised"
             /\ nr_failed' = nr_failed \cup {"liked"}
             /\ UNCHANGED nr_known
        ELSE /\ nr_known' = nr_liked \cup PlaylistIdsFetched(nr_source, sourceFails)
             /\ nr_failed' = nr_failed \cup (IF sourceFails THEN {"source"} ELSE {})
             /\ nr_pc' = "target"
    /\ UNCHANGED <<nr_albums, nr_releases, nr_liked, nr_source, nr_dest, nr_artist,
                   nr_album, nr_processed, nr_expanded, nr_toAdd, nr_appended, nr_run, nr_past>>
    /\ UNCHANGED notNrVars

\* Lines 206-207: the ids of the destination playlist join the known ids.
FetchTarget ==
    /\ nr_pc = "target"
    /\ \E targetFails \in BOOLEAN :
        /\ nr_known' = nr_known \cup PlaylistIdsFetched(IdsOf(nr_dest), targetFails)
        /\ nr_failed' = nr_failed \cup (IF targetFails THEN {"target"} ELSE {})
    /\ nr_pc' = "albums"
    /\ UNCHANGED <<nr_albums, nr_releases, nr_liked, nr_source, nr_dest, nr_artist,
                   nr_album, nr_processed, nr_expanded, nr_toAdd, nr_appended, nr_run, nr_past>>
    /\ UNCHANGED notNrVars

\* Lines 224-237: one album of the artist's new releases.
CheckAlbum ==
    /\ nr_pc = "albums"
    /\ nr_artist \in NrFollowed
    /\ nr_album <= Len(nr_releases[nr_artist])
    /\ LET album == nr_releases[nr_artist][nr_album]
       IN  IF album \in nr_processed
           THEN UNCHANGED <<nr_processed, nr_expanded, nr_toAdd>>
           ELSE /\ nr_processed' = nr_processed \cup {album}
                /\ nr_expanded' = Append(nr_expanded, album)
                /\ nr_toAdd' = nr_toAdd \cup
                      {tid \in IdsOf(nr_albums[album]) : IsNew(tid, nr_known)}
    /\ nr_album' = nr_album + 1
    /\ UNCHANGED <<nr_albums, nr_releases, nr_liked, nr_source, nr_dest, nr_known,
                   nr_failed, nr_artist, nr_appended, nr_run, nr_past, nr_pc>>
    /\ UNCHANGED notNrVars

\* Line 219: the next artist.
NextArtist ==
    /\ nr_pc = "albums"
    /\ nr_artist \in NrFollowed
    /\ nr_album > Len(nr_releases[nr_artist])
    /\ nr_artist' = nr_artist + 1
    /\ nr_album' = 1
    /\ UNCHANGED <<nr_albums, nr_releases, nr_liked, nr_source, nr_dest, nr_known,
                   nr_failed, nr_processed, nr_expanded, nr_toAdd, nr_appended,
                   nr_run, nr_past, nr_pc>>
    /\ UNCHANGED notNrVars

\* Lines 246-256: the new ids are appended (one batch: there are fewer than
\* 100), in the order list() gives them.
AppendNewTracks ==
    /\ nr_pc = "albums"
    /\ nr_artist \notin NrFollowed
    /\ \E tracks_list \in OrdersOf(nr_toAdd) :
        /\ nr_dest' = nr_dest \o tracks_list
        /\ nr_appended' = tracks_list
    /\ nr_pc' = "done"
    /\ UNCHANGED <<nr_albums, nr_releases, nr_liked, nr_source, nr_known, nr_failed,
                   nr_artist, nr_album, nr_processed, nr_expanded, nr_toAdd, nr_run, nr_past>>
    /\ UNCHANGED notNrVars

\* The script is run again; nr_past keeps how each earlier run ended and
\* which of its fetches failed.
NrRunAgain ==
    /\ nr_pc \in {"done", "raised"}
    /\ nr_run < NrMaxRuns
    /\ nr_run' = nr_run + 1
    /\ nr_past' = Append(nr_past, [ended |-> nr_pc, failed |-> nr_failed])
    /\ nr_known' = {}
    /\ nr_failed' = {}
    /\ nr_artist' = 1
    /\ nr_album' = 1
    /\ nr_processed' = {}
    /\ nr_expanded' = <<>>
    /\ nr_toAdd' = {}
    /\ nr_appended' = <<>>
    /\ nr_pc' = "library"
    /\ UNCHANGED <<nr_albums, nr_releases, nr_liked, nr_source, nr_dest>>
    /\ UNCHANGED notNrVars

NrNext ==
    \/ FetchLibrary
    \/ FetchTarget
    \/ CheckAlbum
    \/ NextArtist
    \/ AppendNewTracks
    \/ NrRunAgain

(***************************************************************************)
(* Specifications: one per part.                                           *)
(***************************************************************************)
InitMerge == MergeStart /\ LibIdle /\ PlIdle /\ RtIdle /\ FtIdle /\ NzIdle /\ MtIdle /\ RcIdle /\ PkIdle /\ OdIdle /\ NrIdle

SpecMerge == InitMerge /\ [][MergeNext]_vars

InitLibrary == LibStart /\ MergeIdle /\ PlIdle /\ RtIdle /\ FtIdle /\ NzIdle /\ MtIdle /\ RcIdle /\ PkIdle /\ OdIdle /\ NrIdle

SpecLibrary == InitLibrary /\ [][LibNext]_vars

InitPlaylist == PlStart /\ MergeIdle /\ LibIdle /\ RtIdle /\ FtIdle /\ NzIdle /\ MtIdle /\ RcIdle /\ PkIdle /\ OdIdle /\ NrIdle

SpecPlaylist == InitPlaylist /\ [][PlNext]_vars

InitScrobble == RtStart /\ MergeIdle /\ LibIdle /\ PlIdle /\ FtIdle /\ NzIdle /\ MtIdle /\ RcIdle /\ PkIdle /\ OdIdle /\ NrIdle

SpecScrobble == InitScrobble /\ [][RtNext]_vars

InitFetch == FtStart /\ MergeIdle /\ LibIdle /\ PlIdle /\ RtIdle /\ NzIdle /\ MtIdle /\ RcIdle /\ PkIdle /\ OdIdle /\ NrIdle

\* A fetcher is a sequential loop: while it has a step to take it takes one.
SpecFetch == InitFetch /\ [][FtNext]_vars /\ WF_vars(FtNext)

InitNormalize == NzStart /\ MergeIdle /\ LibIdle /\ PlIdle /\ RtIdle /\ FtIdle /\ MtIdle /\ RcIdle /\ PkIdle /\ OdIdle /\ NrIdle

SpecNormalize == InitNormalize /\ [][NzNext]_vars

InitMatch == MtStart /\ MergeIdle /\ LibIdle /\ PlIdle /\ RtIdle /\ FtIdle /\ NzIdle /\ RcIdle /\ PkIdle /\ OdIdle /\ NrIdle

SpecMatch == InitMatch /\ [][MtNext]_vars

InitRecent == RcStart /\ MergeIdle /\ LibIdle /\ PlIdle /\ RtIdle /\ FtIdle /\ NzIdle /\ MtIdle /\ PkIdle /\ OdIdle /\ NrIdle

SpecRecent == InitRecent /\ [][RcNext]_vars

InitPlaycount == PkStart /\ MergeIdle /\ LibIdle /\ PlIdle /\ RtIdle /\ FtIdle /\ NzIdle /\ MtIdle /\ RcIdle /\ OdIdle /\ NrIdle

SpecPlaycount == InitPlaycount /\ [][PkNext]_vars

InitOrder == OdStart /\ MergeIdle /\ LibIdle /\ PlIdle /\ RtIdle /\ FtIdle /\ NzIdle /\ MtIdle /\ RcIdle /\ PkIdle /\ NrIdle

SpecOrder == InitOrder /\ [][OdNext]_vars

InitNewReleases == NrStart /\ MergeIdle /\ LibIdle /\ PlIdle /\ RtIdle /\ FtIdle /\ NzIdle /\ MtIdle /\ RcIdle /\ PkIdle /\ OdIdle

SpecNewReleases == InitNewReleases /\ [][NrNext]_vars

(***************************************************************************)
(* Claims on Part 1.                                                       *)
(***************************************************************************)
\* The dates seen so far for uri u, and the date kept for it.
ObservedDates(u) ==
    {m_tracks[j].added_at : j \in {k \in 1..(m_i - 1) : m_tracks[k].uri = u}}

KeptDate(u) == EntryOf(m_unique, u).added_at

Contribution(s) ==
    IF s = "liked"
    THEN (IF lb_likedFails THEN <<>> ELSE lb_liked)
    ELSE (IF lb_plFail[s] = "none" THEN lb_pl[s] ELSE <<>>)

SourceFailed(s) ==
    IF s = "liked" THEN lb_likedFails ELSE lb_plFail[s] # "none"

\* The merge of the same records done in one go, source after source.
RECURSIVE MergeAllLiked(_, _)
MergeAllLiked(all, items) ==
    IF items = <<>> THEN all
    ELSE MergeAllLiked(PutEntry(all, Head(items)), Tail(items))

RECURSIVE MergeAllPlaylist(_, _)
MergeAllPlaylist(all, items) ==
    IF items = <<>> THEN all
    ELSE MergeAllPlaylist(
             IF HasUri(all, Head(items).uri) THEN all ELSE Append(all, Head(items)),
             Tail(items))

RECURSIVE MergePlaylistsFrom(_, _)
MergePlaylistsFrom(all, k) ==
    IF k > Len(PlaylistIds) THEN all
    ELSE MergePlaylistsFrom(
             MergeAllPlaylist(all, Contribution(PlaylistIds[k])), k + 1)

SequentialMerge ==
    MergePlaylistsFrom(MergeAllLiked(<<>>, Contribution("liked")), 1)

\* The record that must survive for uri u: the last liked song with that uri,
\* and without one the first playlist item with it, the playlists in order.
LikedHits(u) ==
    {k \in 1..Len(Contribution("liked")) : Contribution("liked")[k].uri = u}

PlaylistHits(u) ==
    {pk \in (1..Len(PlaylistIds)) \X (1..LibMaxItems + 1) :
        /\ pk[2] <= Len(Contribution(PlaylistIds[pk[1]]))
        /\ Contribution(PlaylistIds[pk[1]])[pk[2]].uri = u}

FirstHit(H) ==
    CHOOSE pk \in H : \A qk \in H :
        pk[1] < qk[1] \/ (pk[1] = qk[1] /\ pk[2] <= qk[2])

Survivor(u) ==
    IF LikedHits(u) # {}
    THEN Contribution("liked")[SetMax(LikedHits(u))]
    ELSE Contribution(PlaylistIds[FirstHit(PlaylistHits(u))[1]])[
             FirstHit(PlaylistHits(u))[2]]

C3_PartialSuccess ==
    /\ lb_status # "raised"
    /\ \A p \in PlaylistSet :
        (Finished(p) /\ SourceFailed(p)) => \E k \in 1..Len(lb_log) : lb_log[k] = p
    /\ lb_status = "done" =>
        \A s \in Sources : ~SourceFailed(s) =>
            \A k \in 1..Len(Contribution(s)) : HasUri(lb_all, Contribution(s)[k].uri)

(***************************************************************************)
(* Claims on Part 3.                                                       *)
(***************************************************************************)
AddCalls == SelectSeq(pl_calls, LAMBDA c : c.call = "add")

RECURSIVE ConcatBatches(_)
ConcatBatches(calls) ==
    IF calls = <<>> THEN <<>>
    ELSE ConcatBatches(SubSeq(calls, 1, Len(calls) - 1)) \o calls[Len(calls)].batch

NamedTarget(account) == Matches(account, TargetName)

(* A lemma used to read C4 and C6: when the page that the lookup sees holds  *)
(* a playlist of the target name, a finished create_or_update_playlist has   *)
(* created nothing and has left the first such playlist holding exactly the  *)
(* list.                                                                     *)
Pl_ReplaceWhenVisible ==
    (/\ pl_op = "update"
     /\ pl_pc = "done"
     /\ FirstMatch(ac_init, TargetName) # 0) =>
        /\ Len(ac_playlists) = Len(ac_init)
        /\ ac_playlists[FirstMatch(ac_init, TargetName)].items = pl_uris

(* C4 (as stated): after a create_or_update_playlist(name, ordered_uris)     *)
(* that finishes, the playlist named name holds exactly ordered_uris: an     *)
(* existing one has been cleared first, and with an empty list it ends up    *)
(* empty and no append call is issued.  Stated for an account that held at   *)
(* most one playlist of that name before the first run.                      *)
C4_ReplaceSemantics ==
    (/\ pl_op = "update"
     /\ pl_pc = "done"
     /\ pl_run = 1
     /\ Cardinality(NamedTarget(ac_init)) <= 1) =>
        /\ NamedTarget(ac_playlists) # {}
        /\ \A k \in NamedTarget(ac_playlists) : ac_playlists[k].items = pl_uris
        /\ pl_uris = <<>> => AddCalls = <<>>

(* C5: the append calls of one run: each batch holds 1..100 items, the       *)
(* batches put together in call order are the part of the list written so    *)
(* far, and when the run is over there were ceil(N/100) of them and they     *)
(* give back the list.                                                       *)
C5_Batching ==
    pl_pc \in {"append", "done"} =>
        /\ \A k \in 1..Len(AddCalls) :
            Len(AddCalls[k].batch) >= 1 /\ Len(AddCalls[k].batch) <= BatchSize
        /\ ConcatBatches(AddCalls) = SubSeq(pl_uris, 1, Min(pl_i, Len(pl_uris)))
        /\ pl_pc = "done" =>
            /\ Len(AddCalls) = (Len(pl_uris) + BatchSize - 1) \div BatchSize
            /\ ConcatBatches(AddCalls) = pl_uris

(* C5 witness: a finished run that needed three batches, the last one short. *)
C5_Witness ==
    /\ pl_pc = "done"
    /\ Len(pl_uris) > 2 * BatchSize
    /\ Len(AddCalls) = 3
    /\ Len(AddCalls[3].batch) < BatchSize
    /\ ConcatBatches(AddCalls) = pl_uris

(* C6 (as stated): an account that held at most one playlist of the target   *)
(* name never holds two of them, whatever the number of runs, and holds      *)
(* exactly one once a run is over.                                           *)
C6_OnePlaylistPerName ==
    Cardinality(NamedTarget(ac_init)) <= 1 =>
        /\ Cardinality(NamedTarget(ac_playlists)) <= 1
        /\ pl_pc = "done" => Cardinality(NamedTarget(ac_playlists)) = 1

(***************************************************************************)
(* More claims on Part 3.                                                  *)
(***************************************************************************)
\* The contents of the playlist the run has cleared or created.
TargetItems ==
    LET k == CHOOSE k \in 1..Len(ac_playlists) : ac_playlists[k].id = pl_target
    IN  ac_playlists[k].items

FailedCalls == {k \in 1..Len(pl_calls) : pl_calls[k].call = "addfail"}

WholeBatches(n) == SubSeq(pl_uris, 1, Min(n * BatchSize, Len(pl_uris)))

(* C19: once create_or_update_playlist or update_recent_tracks_playlist has  *)
(* cleared or created its playlist, that playlist holds, in every state, a   *)
(* prefix of the list made of whole batches: the batches of the append calls *)
(* that went through.  An append call that fails is the last call of the     *)
(* run: the error is raised, no batch follows, and the playlist keeps the    *)
(* batches written before it, none when the first one fails.  Nothing is put *)
(* back: what the playlist held before the run is gone.                      *)
C19_PrefixOnlyNoRollback ==
    (pl_op \in {"update", "recent"} /\ pl_pc \in {"append", "done", "raised"}) =>
        /\ TargetItems = WholeBatches(Len(AddCalls))
        /\ TargetItems = ConcatBatches(AddCalls)
        /\ \A k \in FailedCalls : k = Len(pl_calls) /\ pl_pc = "raised"
        /\ pl_pc = "raised" =>
            /\ FailedCalls = {Len(pl_calls)}
            /\ Len(TargetItems) < Len(pl_uris)
            /\ pl_calls[Len(pl_calls)].batch = BatchAt(pl_uris, Len(TargetItems))
            /\ Len(AddCalls) = 0 => TargetItems = <<>>

(* C19 witness: the playlist held two tracks, was cleared, took the first    *)
(* batch of a list of three batches, and the second append call failed.      *)
C19_Witness ==
    /\ pl_op = "update"
    /\ pl_pc = "raised"
    /\ pl_run = 1
    /\ FirstMatch(ac_init, TargetName) # 0
    /\ ac_init[FirstMatch(ac_init, TargetName)].items = <<1, 902>>
    /\ Len(pl_uris) > 2 * BatchSize
    /\ Len(AddCalls) = 1
    /\ pl_calls[Len(pl_calls)].call = "addfail"
    /\ TargetItems = SubSeq(pl_uris, 1, BatchSize)

(***************************************************************************)
(* Claims on Part 4.                                                       *)
(***************************************************************************)
AllRateLimited(h) == \A k \in 1..Len(h) : h[k] = "rate"

RateLimitSeen == \E k \in 1..Len(rt_history) : rt_history[k] = "rate"

\* The table the entries of a stream give, a later entry of a key over an
\* earlier one.
RECURSIVE TableOf(_)
TableOf(entries) ==
    IF entries = <<>> THEN EmptyTable
    ELSE [TableOf(SubSeq(entries, 1, Len(entries) - 1))
            EXCEPT ![Lower(entries[Len(entries)].name)] = entries[Len(entries)].weight]

(* C7: under retry_on_rate_limit(max_retries, initial_delay) a rate-limited  *)
(* call is followed by a wait and another call; the k-th wait is             *)
(* initial_delay * 2^(k-1); a call that succeeds ends the loop with its      *)
(* result; when every call is rate-limited there are exactly max_retries + 1 *)
(* calls and max_retries waits, and the rate-limit error is raised.          *)
C7_BoundedRetry ==
    rt_kind = "plain" =>
        /\ rt_calls = Len(rt_history)
        /\ rt_calls <= rt_max + 1
        /\ \A k \in 1..Len(rt_waits) :
            rt_waits[k] = (IF k = 1 THEN rt_delay ELSE 2 * rt_waits[k - 1])
        /\ rt_pc = "call" =>
            /\ AllRateLimited(rt_history)
            /\ Len(rt_waits) = rt_calls
        /\ (AllRateLimited(rt_history) /\ rt_calls <= rt_max) => rt_pc = "call"
        /\ rt_pc = "returned" =>
            /\ rt_history[rt_calls] \notin Errors
            /\ rt_result = rt_history[rt_calls]
            /\ AllRateLimited(SubSeq(rt_history, 1, rt_calls - 1))
            /\ Len(rt_waits) = rt_calls - 1
        /\ (rt_pc = "raised" /\ AllRateLimited(rt_history)) =>
            /\ rt_calls = rt_max + 1
            /\ Len(rt_waits) = rt_max
            /\ rt_result = "rate"

(* C7 witness: every call was rate-limited, there were at least two retries, *)
(* and the error has been raised.                                            *)
C7_Witness ==
    /\ rt_kind = "plain"
    /\ rt_pc = "raised"
    /\ rt_max >= 2
    /\ rt_delay = 2
    /\ AllRateLimited(rt_history)
    /\ rt_calls = rt_max + 1
    /\ SubSeq(rt_waits, 1, 2) = <<2, 4>>

(* C8: an error that is not the rate-limit error ends the call at once: it   *)
(* is the last thing the function did, it is what is raised, and no wait     *)
(* follows it (the waits are those of the rate-limited attempts before it).  *)
C8_NoRetryOnOtherErrors ==
    rt_kind = "plain" =>
        \A k \in 1..Len(rt_history) :
            rt_history[k] \in {"wserr", "exc"} =>
                /\ k = Len(rt_history)
                /\ rt_calls = k
                /\ rt_pc = "raised"
                /\ rt_result = rt_history[k]
                /\ Len(rt_waits) = k - 1

(* C8 witness: another error after two rate-limited attempts.                *)
C8_Witness ==
    /\ rt_kind = "plain"
    /\ rt_pc = "raised"
    /\ rt_calls = 3
    /\ rt_history[1] = "rate" /\ rt_history[2] = "rate"
    /\ rt_history[3] = "wserr"
    /\ rt_result = "wserr"
    /\ Len(rt_waits) = 2

(* What the two scrobble calls of the run do: the service is asked once,    *)
(* nothing waits, nothing is raised, and a rate-limited call ends as a       *)
(* normal result: 0 for the per-track lookup, the table of the entries read  *)
(* before the error for the bulk stream.                                     *)
Rt_RateLimitSwallowed ==
    rt_kind \in {"track", "bulk"} =>
        /\ rt_pc # "raised"
        /\ rt_waits = <<>>
        /\ rt_retries = 0
        /\ rt_calls <= 1
        /\ RateLimitSeen =>
            /\ rt_pc = "returned"
            /\ rt_kind = "track" => rt_result = "zero"
            /\ rt_kind = "bulk" =>
                /\ rt_result = "table"
                /\ bk_table = TableOf(SubSeq(bk_stream, 1, bk_failAt - 1))

(* C9: every rate-limit error from the scrobble service is retried with      *)
(* backoff and then surfaced, for the bulk top-tracks stream as for the      *)
(* per-track lookup: a rate-limited call never ends as a normal result       *)
(* without a retry.                                                          *)
C9_RateLimitRetriedThenSurfaced ==
    (/\ rt_kind \in {"track", "bulk"}
     /\ RateLimitSeen
     /\ rt_pc = "returned") => rt_waits # <<>>

(***************************************************************************)
(* Claims on Part 5.                                                       *)
(***************************************************************************)
\* A page request of the fetch has failed.
RequestFailed == ft_failAt # 0 /\ ft_requests >= ft_failAt

FetchOver == ft_pc \in {"done", "raised"}

\* The number of pages of a collection of n items that hold an item, and
\* the number of its pages: an empty collection is one empty page.
NonEmptyPages(n, limit) == (n + limit - 1) \div limit

PagesOf(n, limit) == IF n = 0 THEN 1 ELSE NonEmptyPages(n, limit)

AllPositions == [i \in 1..ft_size |-> i]

\* The collection holds an item on which the fetcher's item handling raises.
HoleRaises ==
    /\ ft_hole # 0
    /\ \/ ft_kind = "get_liked_songs" /\ ft_holeKind = "null"
       \/ ft_kind = "get_saved_tracks" /\ ft_holeKind \in {"null", "notrack"}
       \/ ft_kind = "get_playlist_tracks" /\ ft_holeKind = "null"

\* What a fetch without a failing request has done, per fetcher.
FetchedInPageOrder ==
    /\ ft_requests <= NonEmptyPages(ft_size, LimitOf(ft_kind)) + 1
    /\ ft_pc = "fetch" => ft_offset = ft_requests * LimitOf(ft_kind)
    /\ (ft_pc = "raised" /\ ~RequestFailed) =>
        ft_kind \in {"get_liked_songs", "get_saved_tracks"} /\ HoleRaises
    /\ (ft_pc = "done" /\ ~RequestFailed) =>
        CASE ft_kind = "get_all_playlist_tracks" ->
               /\ ft_tracks = SelectSeq(AllPositions,
                                LAMBDA i : ShapeAt(i) \notin {"null", "notrack"})
               /\ ft_requests = PagesOf(ft_size, TracksPageLimit)
               /\ ft_log = 0
          [] ft_kind = "get_liked_songs" ->
               /\ ~HoleRaises
               /\ ft_tracks = AllPositions
               /\ ft_requests = NonEmptyPages(ft_size, LikedPageLimit) + 1
          [] ft_kind = "get_saved_tracks" ->
               /\ ~HoleRaises
               /\ ft_ids = {IdAt(i) : i \in 1..ft_size}
               /\ ft_requests = PagesOf(ft_size, LikedPageLimit)
          [] ft_kind = "get_playlist_tracks" /\ HoleRaises ->
               /\ ft_ids = 1..(ft_hole - 1)
               /\ ft_requests = PagesOf(ft_hole, TracksPageLimit)
               /\ ft_log = 1
          [] OTHER ->
               /\ ft_ids = {i \in 1..ft_size : ShapeAt(i) = "track"}
               /\ ft_requests = PagesOf(ft_size, TracksPageLimit)
               /\ ft_log = 0

BeforeFailure == 1..Min(ft_size, (ft_failAt - 1) * LimitOf(ft_kind))

(* C11: when a page request fails in the middle of pagination, every         *)
(* fetcher, playlist tracks and liked songs alike, logs the error, makes no  *)
(* further request, does not raise, and returns exactly the items of the     *)
(* pages fetched before the failing one.                                     *)
C11_EarlyTerminationOnFetchError ==
    RequestFailed =>
        /\ ft_pc = "done"
        /\ ft_log = 1
        /\ ft_requests = ft_failAt
        /\ ft_kind = "get_all_playlist_tracks" =>
            ft_tracks = SelectSeq([i \in BeforeFailure |-> i],
                            LAMBDA i : ShapeAt(i) \notin {"null", "notrack"})
        /\ ft_kind = "get_liked_songs" =>
            ft_tracks = [i \in BeforeFailure |-> i]
        /\ ft_kind = "get_saved_tracks" =>
            ft_ids = {IdAt(i) : i \in BeforeFailure}
        /\ ft_kind = "get_playlist_tracks" =>
            ft_ids = {i \in BeforeFailure : ShapeAt(i) = "track"}

(***************************************************************************)
(* Claims on Part 6.                                                       *)
(***************************************************************************)
WellFormedPositions == SelectSeq([i \in 1..Len(nz_raw) |-> i], LAMBDA i : nz_raw[i] = "track")

(* C12: for any sequence of raw items of the liked-songs source or of a      *)
(* playlist source with null items, items whose track is null and tracks     *)
(* without a uri, fetching and normalizing finish without an exception, no   *)
(* record is made for a malformed item and every well-formed item yields     *)
(* its record.                                                               *)
C12_MalformedItemsFiltered ==
    /\ nz_pc # "raised"
    /\ nz_pc = "done" => nz_records = WellFormedPositions

(***************************************************************************)
(* Claims on Part 7.                                                       *)
(***************************************************************************)
\* The table value under the lowercased artist and name of a library entry.
StoredFor(e) == mt_table[<<Lower(e.artist), Lower(e.name)>>]

(* C13: match_spotify_with_lastfm returns one matched track per library      *)
(* entry, in the library's order, with the entry's uri, name and artist; its *)
(* playcount is the table value under lowercase(artist)|||lowercase(name),   *)
(* and 0 when the table has no such key; the entries counted as missing are  *)
(* as many as the library entries whose key the table does not have.         *)
C13_PlaycountJoin ==
    /\ Len(mt_matched) = Len(mt_missing) +
          Cardinality({i \in 1..Len(mt_matched) : StoredFor(mt_library[i]) # NoEntry})
    /\ \A i \in 1..Len(mt_matched) :
        /\ mt_matched[i].uri = mt_library[i].uri
        /\ mt_matched[i].name = mt_library[i].name
        /\ mt_matched[i].artist = mt_library[i].artist
        /\ mt_matched[i].playcount =
              (IF StoredFor(mt_library[i]) = NoEntry THEN 0 ELSE StoredFor(mt_library[i]))
    /\ mt_pc = "done" =>
        /\ Len(mt_matched) = Len(mt_library)
        /\ Len(mt_missing) =
              Cardinality({i \in 1..Len(mt_library) : StoredFor(mt_library[i]) = NoEntry})

(* C13 witness: an entry written in capitals has got the count stored under  *)
(* the small letters, and another entry is missing.                          *)
C13_Witness ==
    /\ mt_pc = "done"
    /\ Len(mt_library) = 2
    /\ mt_library[1].artist = "A" /\ mt_library[1].name = "A"
    /\ mt_matched[1].playcount = 2
    /\ mt_matched[2].playcount = 0
    /\ Len(mt_missing) = 1
    /\ mt_missing[1] = mt_library[2]

(***************************************************************************)
(* Claims on Part 8.                                                       *)
(***************************************************************************)
\* The dates strictly after the cutoff at which a uri was added to a source.
DatesInWindow(u) ==
    {it.added_at : it \in {(rc_playlists \o rc_liked)[k] : k \in
        {j \in 1..(Len(rc_playlists) + Len(rc_liked)) :
            /\ (rc_playlists \o rc_liked)[j].uri = u
            /\ (rc_playlists \o rc_liked)[j].added_at > Today - WindowDays}}}

PlayedPlaces == {k \in 1..Len(pk_matched) : pk_matched[k].playcount > 0}

PlayedWith(c) == Cardinality({k \in PlayedPlaces : pk_matched[k].playcount = c})

PlayedBelow(c) == Cardinality({k \in PlayedPlaces : pk_matched[k].playcount < c})

PlayedAbove(c) == Cardinality({k \in PlayedPlaces : pk_matched[k].playcount > c})

\* The playcount of the track of a uri.
CountOfUri(u) == pk_matched[u].playcount

NoUriTwice(uris) == Cardinality({uris[k] : k \in 1..Len(uris)}) = Len(uris)

AtLeastZero(n) == IF n < 0 THEN 0 ELSE n

(* C16: the least played list has min(25, number of tracks with playcount    *)
(* > 0) tracks, none with playcount 0, in non-decreasing playcount order;    *)
(* whatever the shuffles gave, it holds of each playcount as many tracks as  *)
(* fit after all the played tracks of a smaller playcount, so no track in it *)
(* has a playcount above that of a played track left out.                    *)
C16_BottomSelection ==
    pk_pc \in {"writeTop", "writeBottom", "done"} =>
        /\ Len(pk_bottom) = Min(SelectionSize, Cardinality(PlayedPlaces))
        /\ NoUriTwice([k \in 1..Len(pk_bottom) |-> pk_bottom[k].uri])
        /\ \A k \in 1..Len(pk_bottom) :
            /\ pk_bottom[k] = pk_matched[pk_bottom[k].uri]
            /\ pk_bottom[k].playcount > 0
        /\ \A k \in 1..(Len(pk_bottom) - 1) :
            pk_bottom[k].playcount <= pk_bottom[k + 1].playcount
        /\ \A c \in PlayCounts \ {0} :
            Cardinality({k \in 1..Len(pk_bottom) : pk_bottom[k].playcount = c}) =
                Min(PlayedWith(c), AtLeastZero(SelectionSize - PlayedBelow(c)))
        /\ LET chosen == {pk_bottom[k].uri : k \in 1..Len(pk_bottom)}
               counts == {pk_bottom[k].playcount : k \in 1..Len(pk_bottom)}
           IN  \A out \in PlayedPlaces \ chosen : \A c \in counts :
                   c <= pk_matched[out].playcount

(* C16 witness: 26 tracks played once and 2 played twice; the list is 25 of  *)
(* the 26, and not the first 25 of them as they stood in the matched list.   *)
C16_Witness ==
    /\ pk_pc = "done"
    /\ PlayedWith(1) = SelectionSize + 1
    /\ PlayedWith(2) = 2
    /\ Len(pk_bottom) = SelectionSize
    /\ \A k \in 1..Len(pk_bottom) : pk_bottom[k].playcount = 1
    /\ pk_bottom # FirstOf(GroupOf(pk_matched, 1), SelectionSize)

(* C17: the list written to the top playlist has min(25, number of tracks    *)
(* with playcount > 0) tracks, none with playcount 0, in non-increasing      *)
(* playcount order, and no track left out has a playcount above that of a    *)
(* track in the list; update_playcount_playlists makes two calls of          *)
(* create_or_update_playlist, the top playlist first, the bottom second.     *)
C17_TopSelection ==
    /\ pk_pc \in {"bottom", "writeTop", "writeBottom", "done"} =>
        /\ Len(pk_top) = Min(SelectionSize, Cardinality(PlayedPlaces))
        /\ NoUriTwice([k \in 1..Len(pk_top) |-> pk_top[k].uri])
        /\ \A k \in 1..Len(pk_top) :
            /\ pk_top[k] = pk_matched[pk_top[k].uri]
            /\ pk_top[k].playcount > 0
        /\ \A k \in 1..(Len(pk_top) - 1) :
            pk_top[k].playcount >= pk_top[k + 1].playcount
        /\ LET chosen == {pk_top[k].uri : k \in 1..Len(pk_top)}
               counts == {pk_top[k].playcount : k \in 1..Len(pk_top)}
           IN  \A out \in (1..Len(pk_matched)) \ chosen : \A c \in counts :
                   pk_matched[out].playcount <= c
    /\ Len(pk_calls) <= 2
    /\ pk_pc = "writeBottom" => Len(pk_calls) = 1
    /\ pk_pc = "done" => Len(pk_calls) = 2
    /\ Len(pk_calls) >= 1 =>
        /\ pk_calls[1].name = "top"
        /\ pk_calls[1].uris = [k \in 1..Len(pk_top) |-> pk_top[k].uri]
    /\ Len(pk_calls) = 2 =>
        /\ pk_calls[2].name = "bottom"
        /\ pk_calls[2].uris = [k \in 1..Len(pk_bottom) |-> pk_bottom[k].uri]

(* C17 witness: 24 tracks played twice, 2 played once and some unplayed: the *)
(* list written is the 24 and one of the 2.                                  *)
C17_Witness ==
    /\ pk_pc = "done"
    /\ PlayedWith(2) = SelectionSize - 1
    /\ PlayedWith(1) = 2
    /\ Cardinality(PlayedPlaces) < Len(pk_matched)
    /\ Len(pk_calls[1].uris) = SelectionSize
    /\ CountOfUri(pk_calls[1].uris[SelectionSize]) = 1
    /\ CountOfUri(pk_calls[1].uris[SelectionSize - 1]) = 2

(***************************************************************************)
(* Claims on Part 10.                                                      *)
(***************************************************************************)
\* The sequence the same sources give when the playlists are taken in
\* another order.
ResultInOrder(order) ==
    IF od_sel = "recent"
    THEN RecentSequence(od_playlists, od_liked, order)
    ELSE TopSequence(od_playlists, od_liked, od_counts, order)

\* No two uris of the sources have the same date (recent tracks) or the
\* same playcount (top list).
NoTies ==
    IF od_sel = "recent"
    THEN LET items == PlaylistsInOrder(od_playlists, <<1, 2>>) \o od_liked
         IN  \A j, k \in 1..Len(items) :
                 items[j].uri # items[k].uri => items[j].added_at # items[k].added_at
    ELSE \A u, v \in OdUris : u # v => od_counts[u] # od_counts[v]

\* Without ties the order of the playlists does not show in the sequence.
Od_OrderIndependentWithoutTies ==
    (od_pc = "done" /\ NoTies) => \A order \in OdOrders : od_result = ResultInOrder(order)

(* C15: for fixed source contents the uri sequence written by the recency    *)
(* selection and by the top-25 selection is the same for every order of the  *)
(* playlist ids, also when several tracks have equal added_at or equal       *)
(* playcount.                                                                *)
C15_OrderIndependence ==
    od_pc = "done" => \A order \in OdOrders : od_result = ResultInOrder(order)

(***************************************************************************)
(* Claims on Part 11.                                                      *)
(***************************************************************************)
\* The destination playlist as it was when the run began.
DestBefore == SubSeq(nr_dest, 1, Len(nr_dest) - Len(nr_appended))

\* The ids known when the run began: liked songs, source playlist,
\* destination playlist.
AlreadyKnown == nr_liked \cup nr_source \cup IdsOf(DestBefore)

NoneTwice(s) == Cardinality({s[k] : k \in 1..Len(s)}) = Len(s)

\* In a run all of whose fetches succeeded no known id is appended, and in
\* every run an album is expanded once and an id appended once.
Nr_ExclusionWhenFetchesSucceed ==
    /\ nr_failed = {} => IdsOf(nr_appended) \cap AlreadyKnown = {}
    /\ NoneTwice(nr_expanded)
    /\ NoneTwice(nr_appended)

(* C18: in one run of new-release discovery no track id of the already-known *)
(* set (liked songs, source playlists, the destination playlist's current    *)
(* contents) is appended to the destination playlist, every album id is      *)
(* expanded at most once, and no track id is appended more than once.        *)
C18_NewReleaseExclusion ==
    /\ IdsOf(nr_appended) \cap AlreadyKnown = {}
    /\ NoneTwice(nr_expanded)
    /\ NoneTwice(nr_appended)

(***************************************************************************)
(* More claims on Part 4.                                                  *)
(***************************************************************************)
\* The entries of the stream read before its failure (all of them when it
\* does not fail), and the weight the last of them gives a key.
EntriesRead ==
    SubSeq(bk_stream, 1, IF bk_failAt = 0 THEN Len(bk_stream) ELSE bk_failAt - 1)

PlacesOfKey(entries, key) ==
    {k \in 1..Len(entries) :
        (IF entries[k].name \in {"A", "a"} THEN "a" ELSE entries[k].name) = key}

WeightUnder(entries, key) ==
    IF PlacesOfKey(entries, key) = {} THEN NoEntry
    ELSE entries[SetMax(PlacesOfKey(entries, key))].weight

(* C20: when the top-tracks stream fails, with the rate-limit error or any   *)
(* other, at the first request or after some entries, the bulk fetch asks    *)
(* for the stream once, does not retry or wait, raises nothing, and returns  *)
(* the table of exactly the entries read before the failure (the empty       *)
(* table when the first request fails).                                      *)
C20_BulkFetchNeverRaises ==
    rt_kind = "bulk" =>
        /\ rt_pc # "raised"
        /\ rt_calls <= 1
        /\ rt_waits = <<>>
        /\ rt_retries = 0
        /\ rt_history # <<>> =>
            /\ rt_history = <<bk_err>>
            /\ rt_calls = 1
            /\ rt_pc = "returned"
            /\ rt_result = "table"
            /\ bk_pos = bk_failAt - 1
        /\ rt_pc = "returned" =>
            /\ DOMAIN bk_table = {"a", "b"}
            /\ \A key \in {"a", "b"} : bk_table[key] = WeightUnder(EntriesRead, key)
            /\ (bk_failAt = 1) => \A key \in {"a", "b"} : bk_table[key] = NoEntry

(* C20 witness: the stream failed with an error other than the rate limit    *)
(* after one entry, and the table of that entry has been returned.           *)
C20_Witness ==
    /\ rt_kind = "bulk"
    /\ rt_pc = "returned"
    /\ bk_failAt = 2
    /\ bk_err = "exc"
    /\ rt_history = <<"exc">>
    /\ rt_calls = 1
    /\ bk_stream[1].name = "A"
    /\ bk_table["a"] = bk_stream[1].weight
    /\ bk_table["b"] = NoEntry

(* C21: get_lastfm_track_playcount is total.  Whatever the service answers   *)
(* and whatever max_retries and initial_delay the wrapper has, the lookup is  *)
(* made once, nothing is raised, nothing waits and nothing is retried: the    *)
(* call returns the play count when the service gives one, and 0 when it      *)
(* gives none or fails, with the rate-limit error or any other.               *)
C21_TrackLookupTotal ==
    rt_kind = "track" =>
        /\ rt_pc \in {"call", "returned"}
        /\ rt_retries = 0
        /\ rt_waits = <<>>
        /\ rt_calls = Len(rt_history)
        /\ rt_pc = "call" => rt_calls = 0
        /\ rt_pc = "returned" =>
            /\ rt_calls = 1
            /\ rt_history[1] = "count" => rt_result = "count"
            /\ rt_history[1] \in {"none", "rate", "wserr", "exc"} => rt_result = "zero"

(* C21 witness: the one lookup met the rate-limit error under a wrapper that  *)
(* had retries to give, and the call has returned 0.                          *)
C21_Witness ==
    /\ rt_kind = "track"
    /\ rt_max >= 1
    /\ rt_pc = "returned"
    /\ rt_history = <<"rate">>
    /\ rt_calls = 1
    /\ rt_waits = <<>>
    /\ rt_result = "zero"

(***************************************************************************)
(* More claims on Part 11.                                                 *)
(***************************************************************************)
\* A run before this one went through to its end.
PastCompleted == \E k \in 1..Len(nr_past) : nr_past[k].ended = "done"

\* The fetch of the destination playlist failed in this run or in one
\* before it.
TargetFetchFailed ==
    \/ "target" \in nr_failed
    \/ \E k \in 1..Len(nr_past) : "target" \in nr_past[k].failed

\* With every fetch of the destination playlist answered the playlist never
\* holds an id twice, and a run all of whose fetches were answered appends
\* nothing after a run that went through.
Nr_NoDuplicatesWhenFetchesSucceed ==
    /\ ~TargetFetchFailed => NoneTwice(nr_dest)
    /\ (nr_pc = "done" /\ PastCompleted /\ nr_failed = {}) => nr_appended = <<>>

(* C22: after any number of runs of main of new_releases.py against an       *)
(* unchanged catalog the destination playlist holds no track id twice, and a *)
(* run that follows a run that went through appends nothing, also when the   *)
(* fetch of the destination playlist or of a source playlist fails.          *)
C22_NoDuplicatesAcrossRuns ==
    /\ NoneTwice(nr_dest)
    /\ (nr_pc = "done" /\ PastCompleted) => nr_appended = <<>>

====
